---- MODULE Spec2Model ----
(***************************************************************************)
(* podclaw: the transcript endpoint (api/transcript.js, three successive   *)
(* versions: captions client, player endpoint, speech-to-text) and the     *)
(* resolve endpoint (api/resolve.js).  Strings are sequences of            *)
(* one-character strings, so that includes/startsWith/trim/split act on    *)
(* the text as the JavaScript does.                                        *)
(***************************************************************************)
EXTENDS Integers, Sequences, FiniteSets, TLC

\* ---------------------------------------------------------------- bounds
\* requests in flight at once on the captions-client endpoint
MaxReq == 2
\* Innertube.create calls in one run
MaxClients == 2
\* caption tracks in the lists handed to track selection
MaxTracks == 3

\* --------------------------------------------------------------- strings
\* JavaScript null / undefined where a string is expected
Null == <<"null">>

Truthy(s) == s # Null /\ s # <<>>

\* a || b on strings
OrElse(a, b) == IF Truthy(a) THEN a ELSE b

\* s[a..b], clamped to the string as slice and substring clamp
Slice(s, a, b) ==
  LET lo == IF a < 1 THEN 1 ELSE a
      hi == IF b > Len(s) THEN Len(s) ELSE b
  IN IF lo > hi THEN <<>> ELSE SubSeq(s, lo, hi)

Includes(s, sub) ==
  \E i \in 0..(Len(s) - Len(sub)) : Slice(s, i + 1, i + Len(sub)) = sub

StartsWith(s, p) == Len(s) >= Len(p) /\ Slice(s, 1, Len(p)) = p

IsSpace(c) == c \in {" ", "\n", "\t", "\r"}

RECURSIVE TrimStart(_)
TrimStart(s) ==
  IF s # <<>> /\ IsSpace(Head(s)) THEN TrimStart(Tail(s)) ELSE s

RECURSIVE TrimEnd(_)
TrimEnd(s) ==
  IF s # <<>> /\ IsSpace(s[Len(s)]) THEN TrimEnd(Slice(s, 1, Len(s) - 1)) ELSE s

Trim(s) == TrimEnd(TrimStart(s))

Digits == <<"0", "1", "2", "3", "4", "5", "6", "7", "8", "9">>

RECURSIVE NatToStr(_)
NatToStr(n) ==
  IF n < 10 THEN <<Digits[n + 1]>>
  ELSE NatToStr(n \div 10) \o <<Digits[(n % 10) + 1]>>

PadStart2(s) == IF Len(s) < 2 THEN <<"0">> \o s ELSE s

\* the first index i >= from with s[i] = c, or 0
RECURSIVE IndexFrom(_, _, _)
IndexFrom(s, c, from) ==
  IF from > Len(s) THEN 0
  ELSE IF s[from] = c THEN from
  ELSE IndexFrom(s, c, from + 1)

\* the first index i >= from with s[i] in cs, or Len(s) + 1
RECURSIVE EndAt(_, _, _)
EndAt(s, cs, from) ==
  IF from > Len(s) THEN Len(s) + 1
  ELSE IF s[from] \in cs THEN from
  ELSE EndAt(s, cs, from + 1)

\* the first index at which sub starts in s, or 0
RECURSIVE FindFrom(_, _, _)
FindFrom(s, sub, from) ==
  IF from + Len(sub) - 1 > Len(s) THEN 0
  ELSE IF Slice(s, from, from + Len(sub) - 1) = sub THEN from
  ELSE FindFrom(s, sub, from + 1)

\* s.split(/\s+/).length
RECURSIVE SplitWsCount(_)
SplitWsCount(s) ==
  IF s = <<>> THEN 1
  ELSE IF IsSpace(Head(s))
       THEN LET rest == TrimStart(s) IN 1 + SplitWsCount(rest)
       ELSE SplitWsCount(Tail(s))

Range(t) == {t[i] : i \in 1..Len(t)}

\* ------------------------------------------------------- extractVideoId
\* [a-zA-Z0-9_-]
IdChars ==
  Range(<<"a","b","c","d","e","f","g","h","i","j","k","l","m","n","o","p","q","r","s","t","u","v","w","x","y","z","A","B","C","D","E","F","G","H","I","J","K","L","M","N","O","P","Q","R","S","T","U","V","W","X","Y","Z","0","1","2","3","4","5","6","7","8","9","_","-">>)

AllIdChars(s) == \A i \in 1..Len(s) : s[i] \in IdChars

\* /^[a-zA-Z0-9_-]{11}$/.test(s)
IsVideoToken(s) == Len(s) = 11 /\ AllIdChars(s)

\* new URL(s) for the http and https schemes: ok is FALSE where the constructor throws
ParseUrl(s) ==
  LET scheme == IF StartsWith(s, <<"h","t","t","p","s",":","/","/">>) THEN 8
                ELSE IF StartsWith(s, <<"h","t","t","p",":","/","/">>) THEN 7 ELSE 0
      rest == Slice(s, scheme + 1, Len(s))
      hostEnd == EndAt(rest, {"/", "?", "#"}, 1)
      pathEnd == EndAt(rest, {"?", "#"}, hostEnd)
      fragAt == EndAt(rest, {"#"}, pathEnd)
      path == Slice(rest, hostEnd, pathEnd - 1)
  IN [ok |-> scheme > 0 /\ hostEnd > 1,
      hostname |-> Slice(rest, 1, hostEnd - 1),
      pathname |-> IF path = <<>> THEN <<"/">> ELSE path,
      search |-> IF pathEnd <= Len(rest) /\ rest[pathEnd] = "?"
                 THEN Slice(rest, pathEnd + 1, fragAt - 1) ELSE <<>>]

\* url.searchParams.get(name)
RECURSIVE SearchParamsGet(_, _)
SearchParamsGet(q, name) ==
  IF q = <<>> THEN Null
  ELSE LET amp == EndAt(q, {"&"}, 1)
           param == Slice(q, 1, amp - 1)
           eq == EndAt(param, {"="}, 1)
       IN IF param # <<>> /\ Slice(param, 1, eq - 1) = name
          THEN Slice(param, eq + 1, Len(param))
          ELSE SearchParamsGet(Slice(q, amp + 1, Len(q)), name)

\* url.pathname.slice(1).split('/')[0]
FirstPathSegment(pathname) ==
  LET p == Slice(pathname, 2, Len(pathname))
  IN Slice(p, 1, EndAt(p, {"/"}, 1) - 1)

\* trimmed.match(/(?:v=|youtu\.be\/)([a-zA-Z0-9_-]{11})/): the capture, or Null
RECURSIVE MatchVideoId(_, _)
MatchVideoId(s, from) ==
  IF from > Len(s) THEN Null
  ELSE LET at(prefix) ==
             /\ Slice(s, from, from + Len(prefix) - 1) = prefix
             /\ from + Len(prefix) + 10 <= Len(s)
             /\ AllIdChars(Slice(s, from + Len(prefix), from + Len(prefix) + 10))
           cap(prefix) == Slice(s, from + Len(prefix), from + Len(prefix) + 10)
       IN IF at(<<"v","=">>) THEN cap(<<"v","=">>)
          ELSE IF at(<<"y","o","u","t","u",".","b","e","/">>) THEN cap(<<"y","o","u","t","u",".","b","e","/">>)
          ELSE MatchVideoId(s, from + 1)

\* an extraction that takes the trimmed input as the id
trimmedInput(input) == IF ~Truthy(input) THEN Null ELSE Trim(input)

extractVideoId(input) ==
  IF ~Truthy(input) THEN Null
  ELSE LET trimmed == Trim(input)
           url == ParseUrl(trimmed)
       IN IF IsVideoToken(trimmed) THEN trimmed
          ELSE IF url.ok /\ Includes(url.hostname, <<"y","o","u","t","u",".","b","e">>)
               THEN FirstPathSegment(url.pathname)
          ELSE IF url.ok /\ Includes(url.hostname, <<"y","o","u","t","u","b","e",".","c","o","m">>)
               THEN SearchParamsGet(url.search, <<"v">>)
          ELSE MatchVideoId(trimmed, 1)

\* what req.query.url || req.query.v || '' can be
VideoInputs ==
  { <<>>,
    <<"a","b","c","1","2","3","4","5","6","7","8">>,
    <<" "," ","a","b","c","1","2","3","4","5","6","7","8"," ">>,
    <<"h","t","t","p","s",":","/","/","y","o","u","t","u",".","b","e","/","a","b","c","1","2","3","4","5","6","7","8">>,
    <<"h","t","t","p","s",":","/","/","w","w","w",".","y","o","u","t","u","b","e",".","c","o","m","/","w","a","t","c","h","?","v","=","a","b","c","1","2","3","4","5","6","7","8">>,
    <<"h","t","t","p","s",":","/","/","w","w","w",".","y","o","u","t","u","b","e",".","c","o","m","/","e","m","b","e","d","/","a","b","c","1","2","3","4","5","6","7","8">>,
    <<"h","t","t","p","s",":","/","/","w","w","w",".","y","o","u","t","u","b","e",".","c","o","m","/","s","h","o","r","t","s","/","a","b","c","1","2","3","4","5","6","7","8">>,
    <<"y","o","u","t","u",".","b","e","/","a","b","c","1","2","3","4","5","6","7","8">>,
    <<"n","o","t"," ","a"," ","v","i","d","e","o">> }

\* the inputs the handlers are run on
HandlerInputs ==
  { <<>>, <<" "," ","a","b","c","1","2","3","4","5","6","7","8"," ">>, <<"h","t","t","p","s",":","/","/","y","o","u","t","u",".","b","e","/","a","b","c","1","2","3","4","5","6","7","8">>, <<"n","o","t"," ","a"," ","v","i","d","e","o">> }

\* extractVideoId over the inputs above
videoIdOf == [input \in VideoInputs |-> extractVideoId(input)]

\* ----------------------------------------------- more strings and numbers
UpperChars == <<"A","B","C","D","E","F","G","H","I","J","K","L","M","N","O","P","Q","R","S","T","U","V","W","X","Y","Z">>

LowerChars == <<"a","b","c","d","e","f","g","h","i","j","k","l","m","n","o","p","q","r","s","t","u","v","w","x","y","z">>

LowerChar(c) ==
  IF \E i \in 1..26 : UpperChars[i] = c
  THEN LowerChars[CHOOSE i \in 1..26 : UpperChars[i] = c]
  ELSE c

\* s.toLowerCase()
ToLower(s) == [i \in 1..Len(s) |-> LowerChar(s[i])]

\* s.split(c) for a one-character separator
RECURSIVE Split(_, _)
Split(s, c) ==
  LET at == IndexFrom(s, c, 1)
  IN IF at = 0 THEN <<s>>
     ELSE <<Slice(s, 1, at - 1)>> \o Split(Slice(s, at + 1, Len(s)), c)

IsDigit(c) == c \in Range(Digits)

AllDigits(s) == \A i \in 1..Len(s) : IsDigit(s[i])

DigitVal(c) == (CHOOSE d \in 1..10 : Digits[d] = c) - 1

RECURSIVE DigitsToNat(_)
DigitsToNat(s) ==
  IF s = <<>> THEN 0
  ELSE DigitsToNat(Slice(s, 1, Len(s) - 1)) * 10 + DigitVal(s[Len(s)])

\* the longest run of digits of s that starts at from
DigitRun(s, from) ==
  LET RECURSIVE end(_)
      end(i) == IF i <= Len(s) /\ IsDigit(s[i]) THEN end(i + 1) ELSE i
  IN Slice(s, from, end(from) - 1)

\* a JavaScript number, in thousandths; nan for NaN
Num(milli) == [nan |-> FALSE, milli |-> milli]

NaN == [nan |-> TRUE, milli |-> 0]

Secs(n) == Num(n * 1000)

NumAdd(a, b) == IF a.nan \/ b.nan THEN NaN ELSE Num(a.milli + b.milli)

\* a * k for an integer k
NumTimes(a, k) == IF a.nan THEN NaN ELSE Num(a.milli * k)

\* a || 0 on numbers: NaN and 0 are falsy
NumOrZero(a) == IF a.nan \/ a.milli = 0 THEN Num(0) ELSE a

\* Number(str) for decimal literals: surrounding whitespace dropped, '' is 0,
\* an optional sign, digits with an optional fraction (kept to thousandths),
\* anything else NaN
ToNumber(str) ==
  LET t == Trim(str)
      signed == t # <<>> /\ t[1] \in {"-", "+"}
      body == IF signed THEN Tail(t) ELSE t
      dot == IndexFrom(body, ".", 1)
      int == IF dot = 0 THEN body ELSE Slice(body, 1, dot - 1)
      frac == IF dot = 0 THEN <<>> ELSE Slice(body, dot + 1, Len(body))
      frac3 == Slice(frac \o <<"0","0","0">>, 1, 3)
      abs == DigitsToNat(int) * 1000 + DigitsToNat(frac3)
  IN IF t = <<>> THEN Num(0)
     ELSE IF ~AllDigits(int) \/ ~AllDigits(frac) \/ (int = <<>> /\ frac = <<>>)
     THEN NaN
     ELSE Num(IF t[1] = "-" THEN 0 - abs ELSE abs)

\* parseInt(str, 10): leading whitespace, an optional sign, then the leading
\* digits; NaN when there is none
ParseInt(str) ==
  LET t == TrimStart(str)
      signed == t # <<>> /\ t[1] \in {"-", "+"}
      body == IF signed THEN Tail(t) ELSE t
      run == DigitRun(body, 1)
  IN IF run = <<>> THEN NaN
     ELSE Num((IF t[1] = "-" THEN 0 - DigitsToNat(run) ELSE DigitsToNat(run)) * 1000)

\* /\.(ext1|ext2|...)(\?|$)/i .test(s), the extensions all three letters long
MatchesExtension(s, exts) ==
  \E i \in 1..Len(s) :
    /\ s[i] = "."
    /\ i + 3 <= Len(s)
    /\ ToLower(Slice(s, i + 1, i + 3)) \in exts
    /\ (i + 3 = Len(s) \/ s[i + 4] = "?")

\* s.match(/<prefix>(\d+)/): the digits captured at the first match, or Null;
\* prefixes is the set of strings the part before the digits can be
RECURSIVE MatchDigitsAfter(_, _, _)
MatchDigitsAfter(s, prefixes, from) ==
  IF from > Len(s) THEN Null
  ELSE LET hits == {p \in prefixes :
                      /\ Slice(s, from, from + Len(p) - 1) = p
                      /\ DigitRun(s, from + Len(p)) # <<>>}
       IN IF hits # {}
          THEN LET p == CHOOSE h \in hits : TRUE IN DigitRun(s, from + Len(p))
          ELSE MatchDigitsAfter(s, prefixes, from + 1)

\* the targets called so far hold no target twice
NoDup(calls) == \A i, j \in 1..Len(calls) : calls[i] = calls[j] => i = j

Count(calls, target) == Cardinality({i \in 1..Len(calls) : calls[i] = target})

\* ------------------------------------------------------- caption tracks
\* a caption track of the player response; kind is 'asr' or undefined
Track(code, kind, url) == [languageCode |-> code, kind |-> kind, baseUrl |-> url]

Tracks ==
  { Track(<<"e","n">>, "undefined", "en-manual"),
    Track(<<"e","n">>, "asr", "en-asr"),
    Track(<<"e","n","-","U","S">>, "undefined", "enUS-manual"),
    Track(<<"e","n","-","G","B">>, "asr", "enGB-asr"),
    Track(<<"e","s">>, "undefined", "es-manual"),
    Track(<<"d","e">>, "asr", "de-asr") }

RECURSIVE SeqsUpTo(_, _)
SeqsUpTo(S, n) ==
  IF n = 0 THEN {<<>>}
  ELSE LET shorter == SeqsUpTo(S, n - 1)
       IN shorter \cup {Append(s, x) : s \in shorter, x \in S}

\* Array.prototype.find: the index of the first element satisfying P, or 0
FindIndex(list, P(_)) ==
  LET hits == {i \in 1..Len(list) : P(list[i])}
  IN IF hits = {} THEN 0 ELSE CHOOSE i \in hits : \A j \in hits : i <= j

IsManualEn(t) == t.languageCode = <<"e","n">> /\ t.kind # "asr"

IsEnPrefix(t) == StartsWith(t.languageCode, <<"e","n">>)

IsEn(t) == t.languageCode = <<"e","n">>

\* a selection that takes the first track whatever its language
selectFirstTrack(captionTracks) == captionTracks[1]

\* the captions client's choice among a non-empty captionTracks
selectTrackCaptions(captionTracks) ==
  LET manual == FindIndex(captionTracks, IsManualEn)
      english == FindIndex(captionTracks, IsEnPrefix)
  IN IF manual # 0 THEN captionTracks[manual]
     ELSE IF english # 0 THEN captionTracks[english]
     ELSE captionTracks[1]

\* ------------------------------------------------------ caption payload
\* one event of a json3 payload; segs is a list of utf8 strings (Null: a
\* segment without utf8), or NoSegs when the event has none; tStartMs 0
\* stands for a missing offset as well (event.tStartMs || 0)
NoSegs == <<<<"undefined">>>>

Event(tStartMs, segs) == [tStartMs |-> tStartMs, segs |-> segs]

RECURSIVE JoinSegs(_)
JoinSegs(segs) ==
  IF segs = <<>> THEN <<>> ELSE OrElse(Head(segs), <<>>) \o JoinSegs(Tail(segs))

\* .replace(/\n/g, ' ')
NewlinesToSpaces(s) == [i \in 1..Len(s) |-> IF s[i] = "\n" THEN " " ELSE s[i]]

\* the segments joined and nothing more
joinedText(event) == JoinSegs(event.segs)

eventText(event) == Trim(NewlinesToSpaces(JoinSegs(event.segs)))

\* `${mins}:${secs.toString().padStart(2, '0')}`
captionTimestamp(startMs) ==
  LET startSec == startMs \div 1000
      mins == startSec \div 60
      secs == startSec % 60
  IN NatToStr(mins) \o <<":">> \o PadStart2(NatToStr(secs))

captionLine(event) ==
  <<"[">> \o captionTimestamp(event.tStartMs) \o <<"]"," ">> \o eventText(event)

RECURSIVE captionLines(_)
captionLines(events) ==
  IF events = <<>> THEN <<>>
  ELSE LET event == Head(events)
       IN IF event.segs = NoSegs \/ eventText(event) = <<>>
          THEN captionLines(Tail(events))
          ELSE <<captionLine(event)>> \o captionLines(Tail(events))

\* lines.join('\n')
RECURSIVE JoinLines(_)
JoinLines(lines) ==
  IF lines = <<>> THEN <<>>
  ELSE IF Len(lines) = 1 THEN lines[1]
  ELSE lines[1] \o <<"\n">> \o JoinLines(Tail(lines))

parseCaptions(events) == JoinLines(captionLines(events))

\* the json3 payloads the caption fetch can return
CaptionPayloads ==
  { <<>>,
    << Event(5000, <<<<"h","i">>>>) >>,
    << Event(5000, <<<<"W","e","l","c","o","m","e"," ","b","a","c","k"," ","t","o"," ","t","h","e"," ","s","h","o","w",","," ">>, <<"t","o","d","a","y"," ","w","e"," ","t","a","l","k","\n","a","b","o","u","t"," ","m","o","d","e","l","s">>>>),
       Event(0, NoSegs),
       Event(65000, <<<<" ","\n">>, Null>>),
       Event(3661000, <<<<"a","n","d"," ","h","o","w"," ","t","o"," ","c","h","e","c","k"," ","t","h","e","m">>>>) >> }

\* parseCaptions over the payloads above
transcriptOf == [events \in CaptionPayloads |-> parseCaptions(events)]

\* ----------------------------------------------------- upstream failures
\* an error thrown by a library or by fetch: its message, and what kind of
\* failure it reports (auth, bot, rate, other)
Err(msg, kind) == [message |-> msg, kind |-> kind]

\* the kinds that report a session the upstream no longer accepts
PoisonKinds == {"auth", "bot", "rate"}

UpstreamErrors ==
  { Err(<<"S","i","g","n"," ","i","n"," ","t","o"," ","c","o","n","f","i","r","m"," ","y","o","u","'","r","e"," ","n","o","t"," ","a"," ","b","o","t">>, "bot"),
    Err(<<"R","e","q","u","e","s","t"," ","f","a","i","l","e","d"," ","w","i","t","h"," ","s","t","a","t","u","s"," ","c","o","d","e"," ","4","2","9">>, "rate"),
    Err(<<>>, "other") }

\* HTTP statuses of a caption fetch that is not ok
CaptionFailStatuses == {404, 429}

NoCaptionsError ==
  Err(<<"N","o"," ","c","a","p","t","i","o","n","s"," ","a","v","a","i","l","a","b","l","e"," ","f","o","r"," ","t","h","i","s"," ","v","i","d","e","o","."," ","T","r","y"," ","a"," ","p","o","p","u","l","a","r"," ","p","o","d","c","a","s","t"," ","-"," ","m","o","s","t"," ","h","a","v","e"," ","a","u","t","o","-","g","e","n","e","r","a","t","e","d"," ","c","a","p","t","i","o","n","s",".">>, "nocaptions")

\* `Failed to fetch captions (HTTP ${captionRes.status})`
CaptionFetchError(status) ==
  Err(<<"F","a","i","l","e","d"," ","t","o"," ","f","e","t","c","h"," ","c","a","p","t","i","o","n","s"," ","(","H","T","T","P"," ">> \o NatToStr(status) \o <<")">>,
      IF status = 429 THEN "rate" ELSE "other")

\* a length test that rejects the empty transcript only
onlyEmpty(transcript) == transcript = <<>>

\* transcript.length < 50
tooShort(transcript) == Len(transcript) < 50

TooShortError == Err(<<"T","r","a","n","s","c","r","i","p","t"," ","i","s"," ","e","m","p","t","y"," ","o","r"," ","t","o","o"," ","s","h","o","r","t",".">>, "other")

JsonError == Err(<<"U","n","e","x","p","e","c","t","e","d"," ","t","o","k","e","n"," ","<"," ","i","n"," ","J","S","O","N"," ","a","t"," ","p","o","s","i","t","i","o","n"," ","0">>, "other")

\* the same rejection for a payload that is malformed further in
JsonErrorLate == Err(<<"U","n","e","x","p","e","c","t","e","d"," ","t","o","k","e","n"," ","}"," ","i","n"," ","J","S","O","N"," ","a","t"," ","p","o","s","i","t","i","o","n"," ","4","2","9">>, "other")

\* every error the captions client can catch
CaptionErrors ==
  UpstreamErrors \cup {NoCaptionsError, TooShortError, JsonError, JsonErrorLate}
    \cup {CaptionFetchError(status) : status \in CaptionFailStatuses}

\* --------------------------------------------------------------- state
VARIABLES
  endpoint,     \* which version of the endpoint is deployed
  yt,           \* transcript.js: let yt = null (the session slot)
  created,      \* how many Innertube.create calls were started
  poisoned,     \* the clients a request was using when it failed on a poison error
  afterPoison,  \* a poison failure left nothing in flight, and no valid request came since
  req,          \* the requests in flight
  resp,         \* the response sent by the last step, NoResp when it sent none
  selector,     \* track selection alone: which endpoint's selection is applied
  candidates,   \* its argument, a list of caption tracks
  chosen,       \* the track it returned, NoTrack before it ran
  given,        \* a function alone: the function called and its argument
  got           \* what the call came to, NotCalled before it ran

vars ==
  <<endpoint, yt, created, poisoned, afterPoison, req, resp, selector, candidates, chosen,
    given, got>>

Req == 1..MaxReq

NoClient == 0

NoResp == [status |-> 0, kind |-> "none", calls |-> <<>>, failed |-> FALSE]

\* the outbound calls of one request, in the order issued
NoCalls == <<>>

\* a preflight answer that allows one origin only
PreflightOneOrigin ==
  [status |-> 200, kind |-> "preflight", allowOrigin |-> "https://podclaw.example",
   calls |-> NoCalls, failed |-> FALSE]

\* the answer to OPTIONS: the headers set at the top of each handler, then
\* res.status(200).end()
Preflight ==
  [status |-> 200, kind |-> "preflight", allowOrigin |-> "*", calls |-> NoCalls,
   failed |-> FALSE]

IdleReq ==
  [pc |-> "idle", videoId |-> Null, innertube |-> NoClient, mine |-> NoClient,
   followsPoison |-> FALSE, reusedPoisoned |-> FALSE, track |-> "none", title |-> Null,
   duration |-> Num(0), calls |-> NoCalls]

OthersInFlight(r) == \E o \in Req \ {r} : req[o].pc # "idle"

\* ------------------------------------------- captions client (lines 1-127)
\* the catch block's test: err.message includes 'Sign in', 'bot' or '429'
isSessionError(message) ==
  \/ Includes(message, <<"S","i","g","n"," ","i","n">>)
  \/ Includes(message, <<"b","o","t">>)
  \/ Includes(message, <<"4","2","9">>)

\* the test's outcome and the response's error text, for each error
caught == [err \in CaptionErrors |->
            [session |-> isSessionError(err.message),
             error |-> OrElse(err.message, <<"F","a","i","l","e","d"," ","t","o"," ","f","e","t","c","h"," ","t","r","a","n","s","c","r","i","p","t",".">>)]]

\* a catch block without the reset
slotKept(err) == yt

\* a catch block that resets the slot on every error
slotCleared(err) == NoClient

\* the slot after the catch block has seen err
slotAfterError(err) == IF caught[err].session THEN NoClient ELSE yt

\* a catch block that calls getInfo again instead of answering
captionsRetry(r, err) ==
  /\ req' = [req EXCEPT ![r].pc = "getInfo", ![r].calls = Append(@, "getInfo")]
  /\ resp' = NoResp
  /\ UNCHANGED <<endpoint, yt, created, poisoned, afterPoison, selector, candidates, chosen, given, got>>

\* the catch block: reset the slot on a session error, answer 500
captionsCatch(r, err) ==
  /\ yt' = slotAfterError(err)
  /\ poisoned' = IF err.kind \in PoisonKinds /\ req[r].innertube # NoClient
                 THEN poisoned \cup {req[r].innertube} ELSE poisoned
  /\ afterPoison' = IF err.kind \in PoisonKinds /\ req[r].innertube # NoClient
                       /\ ~OthersInFlight(r)
                    THEN TRUE ELSE afterPoison
  /\ resp' = [status |-> 500, kind |-> err.kind, error |-> caught[err].error,
              calls |-> req[r].calls, failed |-> TRUE]
  /\ req' = [req EXCEPT ![r] = IdleReq]
  /\ UNCHANGED <<endpoint, created, selector, candidates, chosen, given, got>>

\* a getClient that publishes the client before its creation resolved
slotEager(id) == id

\* the slot while Innertube.create is still pending: getClient assigns only
\* after the await
slotWhileCreating(id) == yt

\* handler entry up to the first await: CORS, OPTIONS, extractVideoId, getClient
CaptionsStart(r) ==
  /\ endpoint = "captions"
  /\ req[r].pc = "idle"
  /\ \A o \in 1..(r - 1) : req[o].pc # "idle"
  /\ \E method \in {"GET", "OPTIONS"} :
       IF method = "OPTIONS"
       THEN /\ resp' = Preflight
            /\ req' = [req EXCEPT ![r] = IdleReq]
            /\ UNCHANGED <<endpoint, yt, created, poisoned, afterPoison, selector, candidates, chosen, given, got>>
       ELSE \E input \in HandlerInputs :
       LET videoId == videoIdOf[input] IN
       IF ~Truthy(videoId)
       THEN /\ resp' = [status |-> 400, kind |-> "invalid",
                        error |-> <<"I","n","v","a","l","i","d"," ","Y","o","u","T","u","b","e"," ","U","R","L"," ","o","r"," ","v","i","d","e","o"," ","I","D",".">>,
                        calls |-> NoCalls, failed |-> FALSE]
            /\ req' = [req EXCEPT ![r] = IdleReq]
            /\ UNCHANGED <<endpoint, yt, created, poisoned, afterPoison, selector, candidates, chosen, given, got>>
       ELSE IF yt = NoClient
       THEN /\ created < MaxClients
            /\ created' = created + 1
            /\ yt' = slotWhileCreating(created + 1)
            /\ req' = [req EXCEPT ![r] =
                 [IdleReq EXCEPT !.pc = "create", !.videoId = videoId,
                                 !.mine = created + 1,
                                 !.followsPoison = afterPoison,
                                 !.reusedPoisoned = (created + 1) \in poisoned,
                                 !.calls = <<"create">>]]
            /\ afterPoison' = FALSE
            /\ resp' = NoResp
            /\ UNCHANGED <<endpoint, poisoned, selector, candidates, chosen, given, got>>
       ELSE /\ req' = [req EXCEPT ![r] =
                 [IdleReq EXCEPT !.pc = "getInfo", !.videoId = videoId,
                                 !.innertube = yt,
                                 !.calls = <<"getInfo">>,
                                 !.followsPoison = afterPoison,
                                 !.reusedPoisoned = yt \in poisoned]]
            /\ afterPoison' = FALSE
            /\ resp' = NoResp
            /\ UNCHANGED <<endpoint, yt, created, poisoned, selector, candidates, chosen, given, got>>

\* getClient resumes: yt = await Innertube.create(...); return yt
CaptionsCreateDone(r) ==
  /\ req[r].pc = "create"
  /\ \/ /\ yt' = req[r].mine
        /\ req' = [req EXCEPT ![r].pc = "getInfo", ![r].innertube = req[r].mine,
                              ![r].mine = NoClient,
                              ![r].calls = Append(req[r].calls, "getInfo")]
        /\ resp' = NoResp
        /\ UNCHANGED <<endpoint, created, poisoned, afterPoison, selector, candidates, chosen, given, got>>
     \/ \E err \in UpstreamErrors : captionsCatch(r, err)

\* what getInfo resolves to: the caption tracks (<<>>: none) and basic_info
\* (Null for a missing title, NaN for a missing duration)
Info(tracks, title, duration) ==
  [captionTracks |-> tracks, title |-> title, duration |-> duration]

Infos ==
  { Info(<<>>, <<"E","p">>, Secs(10)),
    Info(<<Track(<<"e","s">>, "undefined", "es-manual")>>, Null, NaN),
    Info(<<Track(<<"e","n","-","U","S">>, "undefined", "enUS-manual"),
           Track(<<"e","n">>, "asr", "en-asr")>>, <<"E","p">>, Secs(3661)) }

\* getInfo returns or throws; on tracks, select one and fetch its json3 payload
CaptionsGetInfoDone(r) ==
  /\ req[r].pc = "getInfo"
  /\ \/ \E err \in UpstreamErrors : captionsCatch(r, err)
     \/ \E info \in Infos :
          IF info.captionTracks = <<>>
          THEN captionsCatch(r, NoCaptionsError)
          ELSE /\ req' = [req EXCEPT
                    ![r].pc = "fetch",
                    ![r].track = selectTrackCaptions(info.captionTracks).baseUrl,
                    ![r].title = OrElse(info.title, <<"U","n","k","n","o","w","n">>),
                    ![r].duration = NumOrZero(info.duration),
                    ![r].calls = Append(req[r].calls, "captionFetch")]
               /\ resp' = NoResp
               /\ UNCHANGED <<endpoint, yt, created, poisoned, afterPoison, selector, candidates, chosen, given, got>>

youtubeUrl(videoId) == <<"h","t","t","p","s",":","/","/","w","w","w",".","y","o","u","t","u","b","e",".","c","o","m","/","w","a","t","c","h","?","v","=">> \o videoId

\* the body of the 200
transcriptResult(r, transcript) ==
  [videoId |-> req[r].videoId,
   title |-> req[r].title,
   duration |-> req[r].duration,
   youtubeUrl |-> youtubeUrl(req[r].videoId),
   transcript |-> transcript,
   wordCount |-> SplitWsCount(transcript)]

\* await fetch(captionUrl), await captionRes.json(), the parse, the length
\* check and the 200
CaptionsFetchDone(r) ==
  /\ req[r].pc = "fetch"
  /\ \/ \E err \in UpstreamErrors \cup {JsonError, JsonErrorLate} : captionsCatch(r, err)
     \/ \E status \in CaptionFailStatuses : captionsCatch(r, CaptionFetchError(status))
     \/ \E events \in CaptionPayloads :
          LET transcript == transcriptOf[events] IN
          IF tooShort(transcript)
          THEN captionsCatch(r, TooShortError)
          ELSE /\ resp' = [status |-> 200, kind |-> "transcript",
                           result |-> transcriptResult(r, transcript),
                           calls |-> req[r].calls, failed |-> FALSE]
               /\ req' = [req EXCEPT ![r] = IdleReq]
               /\ UNCHANGED <<endpoint, yt, created, poisoned, afterPoison, selector, candidates, chosen, given, got>>

\* ------------------------------------------ player endpoint (lines 146-312)
\* the result of an async function: a value, or the error it threw, with the
\* outbound calls it issued
Returned(value, calls) == [threw |-> FALSE, value |-> value, calls |-> calls]

Thrown(err, calls) == [threw |-> TRUE, err |-> err, calls |-> calls]

\* captionTracks.find(...) || ... || captionTracks[0] of the player endpoint
selectTrackPlayer(captionTracks) ==
  LET manual == FindIndex(captionTracks, IsManualEn)
      en == FindIndex(captionTracks, IsEn)
  IN IF manual # 0 THEN captionTracks[manual]
     ELSE IF en # 0 THEN captionTracks[en]
     ELSE captionTracks[1]

\* segments.join('\n') over the events, as the captions client builds it; the
\* extra test text !== '\n' cannot fail after trim()
parseCaptionJson3(events) == JoinLines(captionLines(events))

\* what the player call comes to: fetch throwing, or an HTTP answer whose
\* body is playerData (playability status and reason, tracks, videoDetails)
PlayerThrow(err) == [threw |-> TRUE, err |-> err]

PlayerAnswer(ok, status, playability, reason, tracks, title, lengthSeconds) ==
  [threw |-> FALSE, ok |-> ok, status |-> status, playability |-> playability,
   reason |-> reason, captionTracks |-> tracks, title |-> title,
   lengthSeconds |-> lengthSeconds]

PlayerAnswers ==
  { PlayerThrow(Err(<<"f","e","t","c","h"," ","f","a","i","l","e","d">>, "other")),
    PlayerAnswer(FALSE, 429, Null, Null, <<>>, Null, Null),
    PlayerAnswer(FALSE, 403, Null, Null, <<>>, Null, Null),
    PlayerAnswer(TRUE, 200, <<"L","O","G","I","N","_","R","E","Q","U","I","R","E","D">>, <<"S","i","g","n"," ","i","n"," ","t","o"," ","c","o","n","f","i","r","m"," ","y","o","u","'","r","e"," ","n","o","t"," ","a"," ","b","o","t">>,
                 <<>>, Null, Null),
    PlayerAnswer(TRUE, 200, <<"L","O","G","I","N","_","R","E","Q","U","I","R","E","D">>, <<"T","h","i","s"," ","v","i","d","e","o"," ","i","s"," ","p","r","i","v","a","t","e">>,
                 <<>>, Null, Null),
    PlayerAnswer(TRUE, 200, <<"L","O","G","I","N","_","R","E","Q","U","I","R","E","D">>, <<"S","i","g","n"," ","i","n"," ","t","o"," ","c","o","n","f","i","r","m"," ","y","o","u","r"," ","a","g","e">>,
                 <<>>, Null, Null),
    PlayerAnswer(TRUE, 200, <<"E","R","R","O","R">>, Null, <<>>, Null, Null),
    PlayerAnswer(TRUE, 200, Null, Null, <<>>, Null, Null),
    PlayerAnswer(TRUE, 200, <<"O","K">>, Null, <<>>, <<"E","p">>, <<"1","0">>),
    PlayerAnswer(TRUE, 200, <<"O","K">>, Null,
                 <<Track(<<"e","s">>, "undefined", "es-manual")>>, Null, Null),
    PlayerAnswer(TRUE, 200, <<"O","K">>, Null,
                 <<Track(<<"e","n","-","U","S">>, "undefined", "enUS-manual"),
                   Track(<<"e","n">>, "asr", "en-asr")>>, <<"E","p">>, <<"3","6","6","1">>) }

\* what the caption fetch comes to
CaptionThrow(err) == [threw |-> TRUE, err |-> err]

CaptionAnswer(ok, status, jsonOk, events) ==
  [threw |-> FALSE, ok |-> ok, status |-> status, jsonOk |-> jsonOk, events |-> events]

CaptionAnswers ==
  {CaptionThrow(Err(<<"f","e","t","c","h"," ","f","a","i","l","e","d">>, "other"))}
    \cup {CaptionAnswer(FALSE, status, TRUE, <<>>) : status \in CaptionFailStatuses}
    \cup {CaptionAnswer(TRUE, 200, FALSE, <<>>)}
    \cup {CaptionAnswer(TRUE, 200, TRUE, events) : events \in CaptionPayloads}

PlayerStatusError(status) ==
  Err(<<"Y","o","u","T","u","b","e"," ","p","l","a","y","e","r"," ","A","P","I"," ","r","e","t","u","r","n","e","d"," ">> \o NatToStr(status),
      IF status = 429 THEN "rate" ELSE "other")

\* status?.reason || status?.messages?.[0] || status?.status || 'Video unavailable'
\* (the answers carry no messages list)
PlayabilityError(player) ==
  LET reason == OrElse(player.reason, OrElse(player.playability, <<"V","i","d","e","o"," ","u","n","a","v","a","i","l","a","b","l","e">>))
  IN Err(reason,
         IF Includes(reason, <<"b","o","t">>) THEN "bot"
         ELSE IF Includes(reason, <<"p","r","i","v","a","t","e">>) THEN "private"
         ELSE IF Includes(reason, <<"a","g","e">>) THEN "age"
         ELSE "other")

NoCaptionsPlayerError ==
  Err(<<"N","o"," ","c","a","p","t","i","o","n","s"," ","a","v","a","i","l","a","b","l","e"," ","f","o","r"," ","t","h","i","s"," ","v","i","d","e","o","."," ","T","r","y"," ","a"," ","d","i","f","f","e","r","e","n","t"," ","p","o","d","c","a","s","t"," ","-"," ","m","o","s","t"," ","p","o","p","u","l","a","r"," ","o","n","e","s"," ","h","a","v","e"," ","a","u","t","o","-","g","e","n","e","r","a","t","e","d"," ","c","a","p","t","i","o","n","s",".">>, "nocaptions")

\* the body of the try block: the transcript result, or the error thrown
playerTry(videoId, player, caption) ==
  IF player.threw THEN Thrown(player.err, <<"player">>)
  ELSE IF ~player.ok THEN Thrown(PlayerStatusError(player.status), <<"player">>)
  ELSE IF player.playability # <<"O","K">> THEN Thrown(PlayabilityError(player), <<"player">>)
  ELSE IF player.captionTracks = <<>> THEN Thrown(NoCaptionsPlayerError, <<"player">>)
  ELSE
    LET track == selectTrackPlayer(player.captionTracks)
        calls == <<"player", "captionFetch">>
    IN IF caption.threw THEN Thrown(caption.err, calls)
       ELSE IF ~caption.ok THEN Thrown(CaptionFetchError(caption.status), calls)
       ELSE IF ~caption.jsonOk THEN Thrown(JsonError, calls)
       ELSE LET transcript == parseCaptionJson3(caption.events) IN
            IF tooShort(transcript) THEN Thrown(TooShortError, calls)
            ELSE Returned(
                   [videoId |-> videoId,
                    title |-> OrElse(player.title, <<"U","n","k","n","o","w","n">>),
                    duration |-> ParseInt(OrElse(player.lengthSeconds, <<"0">>)),
                    youtubeUrl |-> youtubeUrl(videoId),
                    transcript |-> transcript,
                    wordCount |-> SplitWsCount(transcript),
                    track |-> track.baseUrl],
                   calls)

\* the whole handler: the response to one request
playerHandler(method, input, player, caption) ==
  IF method = "OPTIONS"
  THEN Preflight
  ELSE
    LET videoId == videoIdOf[input] IN
    IF ~Truthy(videoId)
    THEN [status |-> 400, kind |-> "invalid",
          error |-> <<"I","n","v","a","l","i","d"," ","Y","o","u","T","u","b","e"," ","U","R","L"," ","o","r"," ","v","i","d","e","o"," ","I","D",".">>,
          calls |-> NoCalls, failed |-> FALSE]
    ELSE
      LET out == playerTry(videoId, player, caption) IN
      IF out.threw
      THEN [status |-> 500, kind |-> out.err.kind,
            error |-> OrElse(out.err.message, <<"F","a","i","l","e","d"," ","t","o"," ","f","e","t","c","h"," ","t","r","a","n","s","c","r","i","p","t",".">>),
            calls |-> out.calls, failed |-> TRUE]
      ELSE [status |-> 200, kind |-> "transcript", result |-> out.value,
            calls |-> out.calls, failed |-> FALSE]

\* every response the handler can give
playerResponses ==
  { playerHandler(method, input, player, caption) :
      method \in {"GET", "OPTIONS"}, input \in HandlerInputs,
      player \in PlayerAnswers, caption \in CaptionAnswers }

\* one request to the player endpoint, from arrival to response
PlayerRequest ==
  /\ endpoint = "player"
  /\ \E response \in playerResponses : resp' = response
  /\ UNCHANGED <<endpoint, yt, created, poisoned, afterPoison, req, selector, candidates, chosen, given, got>>

\* --------------------------------------------- speech-to-text (lines 314-488)
\* the video id the handler derives from the trimmed input
sttVideoId(videoInput) ==
  LET trimmed == Trim(videoInput)
      url == ParseUrl(trimmed)
  IN IF (Includes(trimmed, <<"y","o","u","t","u","b","e",".","c","o","m">>) \/ Includes(trimmed, <<"y","o","u","t","u",".","b","e">>)) /\ url.ok
     THEN IF Includes(url.hostname, <<"y","o","u","t","u","b","e",".","c","o","m">>)
          THEN OrElse(SearchParamsGet(url.search, <<"v">>), trimmed)
          ELSE IF url.hostname = <<"y","o","u","t","u",".","b","e">>
          THEN FirstPathSegment(url.pathname)
          ELSE trimmed
     ELSE trimmed

\* 25 * 1024 * 1024
MaxAudioBytes == 25 * 1024 * 1024

\* a size test that lets every download through
fitsAlways(bytes) == FALSE

\* audioBuffer.length > 25 * 1024 * 1024
exceedsLimit(bytes) == bytes > MaxAudioBytes

\* (audioBuffer.length / 1024 / 1024).toFixed(1)
sizeMB(bytes) ==
  LET tenths == (bytes * 20 + 1048576) \div 2097152
  IN NatToStr(tenths \div 10) \o <<".">> \o NatToStr(tenths % 10)

\* the timestamp of a Whisper segment starting at start (in milliseconds)
sttTimestamp(start) ==
  LET totalSec == start \div 1000
      h == totalSec \div 3600
      m == (totalSec % 3600) \div 60
      s == totalSec % 60
  IN IF h > 0
     THEN NatToStr(h) \o <<":">> \o PadStart2(NatToStr(m)) \o <<":">> \o PadStart2(NatToStr(s))
     ELSE NatToStr(m) \o <<":">> \o PadStart2(NatToStr(s))

Segment(start, text) == [start |-> start, text |-> text]

sttLines(segments) ==
  [i \in 1..Len(segments) |->
     <<"[">> \o sttTimestamp(segments[i].start) \o <<"]"," ">> \o Trim(segments[i].text)]

\* the transcript built from groqData (segments, text)
sttTranscript(groqData) ==
  IF Len(groqData.segments) > 0
  THEN JoinLines(sttLines(groqData.segments))
  ELSE OrElse(groqData.text, <<>>)

\* what ytdl.getInfo comes to: an error, or the video's details and whether
\* chooseFormat finds an audio format ("found", "none", or "throws")
YtdlErrors ==
  { Err(<<"V","i","d","e","o"," ","u","n","a","v","a","i","l","a","b","l","e">>, "private"),
    Err(<<"T","h","i","s"," ","i","s"," ","a"," ","p","r","i","v","a","t","e"," ","v","i","d","e","o">>, "private"),
    Err(<<"S","i","g","n"," ","i","n"," ","t","o"," ","c","o","n","f","i","r","m"," ","y","o","u","r"," ","a","g","e">>, "age"),
    Err(<<"S","t","a","t","u","s"," ","c","o","d","e",":"," ","4","2","9">>, "rate"),
    Err(<<"E","r","r","o","r"," ","w","h","e","n"," ","p","a","r","s","i","n","g"," ","w","a","t","c","h"," ","p","a","g","e">>, "other"),
    Err(<<"s","o","c","k","e","t"," ","h","a","n","g"," ","u","p">>, "other") }

YtdlInfo(title, lengthSeconds, format) ==
  [threw |-> FALSE, title |-> title, lengthSeconds |-> lengthSeconds, format |-> format]

YtdlAnswers ==
  {[threw |-> TRUE, err |-> err] : err \in YtdlErrors}
    \cup { YtdlInfo(<<"E","p">>, <<"3","6","6","1">>, "found"),
           YtdlInfo(<<"E","p">>, <<"1","0">>, "none"),
           YtdlInfo(<<"E","p">>, <<"1","0">>, "throws") }

NoFormatError == Err(<<"N","o"," ","s","u","c","h"," ","f","o","r","m","a","t"," ","f","o","u","n","d",":"," ","l","o","w","e","s","t","a","u","d","i","o">>, "other")

\* what the download comes to: the stream failing, or the size of the audio
DownloadAnswers ==
  { [threw |-> TRUE, err |-> Err(<<"S","t","a","t","u","s"," ","c","o","d","e",":"," ","4","0","3">>, "other")],
    [threw |-> FALSE, bytes |-> 1048576],
    [threw |-> FALSE, bytes |-> MaxAudioBytes],
    [threw |-> FALSE, bytes |-> MaxAudioBytes + 1] }

\* what the upload to Whisper comes to: fetch throwing, a status that is not
\* ok with the message of its error body (Null when there is none or the
\* body is no JSON), or ok with groqData (jsonOk FALSE: the body is no JSON)
GroqFail(status, message) ==
  [threw |-> FALSE, ok |-> FALSE, status |-> status, message |-> message]

GroqData(jsonOk, segments, text) ==
  [threw |-> FALSE, ok |-> TRUE, status |-> 200, jsonOk |-> jsonOk,
   segments |-> segments, text |-> text]

GroqAnswers ==
  { [threw |-> TRUE, err |-> Err(<<"f","e","t","c","h"," ","f","a","i","l","e","d">>, "other")],
    GroqFail(401, <<"I","n","v","a","l","i","d"," ","A","P","I"," ","K","e","y">>),
    GroqFail(429, <<"R","a","t","e"," ","l","i","m","i","t"," ","r","e","a","c","h","e","d">>),
    GroqFail(500, Null),
    GroqData(FALSE, <<>>, Null),
    GroqData(TRUE, <<Segment(5500, <<" ","W","e","l","c","o","m","e"," ","b","a","c","k"," ","t","o"," ","t","h","e"," ","s","h","o","w"," ">>),
                     Segment(3661000, <<"a","n","d"," ","h","o","w"," ","t","o"," ","c","h","e","c","k"," ","t","h","e","m">>)>>,
             <<"W","e","l","c","o","m","e"," ","b","a","c","k"," ","t","o"," ","t","h","e"," ","s","h","o","w"," ","a","n","d"," ","h","o","w"," ","t","o"," ","c","h","e","c","k"," ","t","h","e","m">>),
    GroqData(TRUE, <<>>, <<"p","l","a","i","n"," ","t","e","x","t">>),
    GroqData(TRUE, <<>>, Null) }

\* `Whisper transcription failed (${groqRes.status}).`
WhisperFailed(status) == <<"W","h","i","s","p","e","r"," ","t","r","a","n","s","c","r","i","p","t","i","o","n"," ","f","a","i","l","e","d"," ","(">> \o NatToStr(status) \o <<")",".">>

\* `Audio is ${sizeMB}MB - exceeds 25MB Whisper limit. ...`
TooLarge(bytes) ==
  <<"A","u","d","i","o"," ","i","s"," ">> \o sizeMB(bytes)
    \o <<"M","B"," ","-"," ","e","x","c","e","e","d","s"," ","2","5","M","B"," ","W","h","i","s","p","e","r"," ","l","i","m","i","t","."," ","T","r","y"," ","a"," ","s","h","o","r","t","e","r"," ","v","i","d","e","o"," ","(","u","n","d","e","r"," ","~","2"," ","h","o","u","r","s",")",".">>

\* a response that ends the request in an error
Failure(status, kind, error, calls) ==
  [status |-> status, kind |-> kind, error |-> error, calls |-> calls, failed |-> TRUE]

\* the catch block: the status and message for a thrown error
sttCatch(err, calls) ==
  IF Includes(err.message, <<"V","i","d","e","o"," ","u","n","a","v","a","i","l","a","b","l","e">>) \/ Includes(err.message, <<"p","r","i","v","a","t","e">>)
  THEN Failure(400, err.kind, <<"V","i","d","e","o"," ","i","s"," ","u","n","a","v","a","i","l","a","b","l","e"," ","o","r"," ","p","r","i","v","a","t","e",".">>, calls)
  ELSE IF Includes(err.message, <<"a","g","e">>)
  THEN Failure(400, err.kind, <<"A","g","e","-","r","e","s","t","r","i","c","t","e","d"," ","v","i","d","e","o","s"," ","a","r","e"," ","n","o","t"," ","s","u","p","p","o","r","t","e","d",".">>, calls)
  ELSE IF Includes(err.message, <<"S","i","g","n"," ","i","n">>)
  THEN Failure(400, err.kind, <<"T","h","i","s"," ","v","i","d","e","o"," ","r","e","q","u","i","r","e","s"," ","s","i","g","n","-","i","n","."," ","T","r","y"," ","a"," ","d","i","f","f","e","r","e","n","t"," ","v","i","d","e","o",".">>, calls)
  ELSE [status |-> 500, kind |-> err.kind, error |-> <<"F","a","i","l","e","d"," ","t","o"," ","t","r","a","n","s","c","r","i","b","e"," ","v","i","d","e","o",".">>,
        details |-> err.message, calls |-> calls, failed |-> TRUE]

\* the try block and its catch
sttTry(videoId, ytdl, download, groq) ==
  IF ytdl.threw THEN sttCatch(ytdl.err, <<"getInfo">>)
  ELSE IF ytdl.format = "throws" THEN sttCatch(NoFormatError, <<"getInfo">>)
  ELSE IF ytdl.format = "none"
  THEN Failure(400, "noformat", <<"N","o"," ","a","u","d","i","o"," ","f","o","r","m","a","t"," ","a","v","a","i","l","a","b","l","e"," ","f","o","r"," ","t","h","i","s"," ","v","i","d","e","o",".">>,
               <<"getInfo">>)
  ELSE IF download.threw THEN sttCatch(download.err, <<"getInfo", "download">>)
  ELSE IF exceedsLimit(download.bytes)
  THEN Failure(400, "size", TooLarge(download.bytes), <<"getInfo", "download">>)
  ELSE
    LET calls == <<"getInfo", "download", "transcribe">> IN
    IF groq.threw THEN sttCatch(groq.err, calls)
    ELSE IF ~groq.ok
    THEN Failure(500,
                 IF groq.status = 401 THEN "credential"
                 ELSE IF groq.status = 429 THEN "rate" ELSE "other",
                 OrElse(groq.message, WhisperFailed(groq.status)), calls)
    ELSE IF ~groq.jsonOk THEN sttCatch(JsonError, calls)
    ELSE LET transcript == sttTranscript(groq) IN
         [status |-> 200, kind |-> "transcript",
          result |-> [videoId |-> videoId,
                      title |-> ytdl.title,
                      duration |-> ParseInt(ytdl.lengthSeconds),
                      youtubeUrl |-> youtubeUrl(videoId),
                      transcript |-> transcript,
                      wordCount |-> SplitWsCount(transcript)],
          calls |-> calls, failed |-> FALSE]

\* the whole handler: the response to one request; groqKey is whether
\* process.env.GROQ_API_KEY is set
sttHandler(method, groqKey, videoInput, ytdl, download, groq) ==
  IF method = "OPTIONS"
  THEN Preflight
  ELSE IF ~groqKey
  THEN [status |-> 500, kind |-> "credential",
        error |-> <<"G","R","O","Q","_","A","P","I","_","K","E","Y"," ","n","o","t"," ","c","o","n","f","i","g","u","r","e","d","."," ","G","e","t"," ","a"," ","f","r","e","e"," ","k","e","y"," ","a","t"," ","h","t","t","p","s",":","/","/","c","o","n","s","o","l","e",".","g","r","o","q",".","c","o","m"," ","a","n","d"," ","a","d","d"," ","i","t"," ","t","o"," ","V","e","r","c","e","l"," ","e","n","v","i","r","o","n","m","e","n","t"," ","v","a","r","i","a","b","l","e","s",".">>,
        calls |-> NoCalls, failed |-> FALSE]
  ELSE IF ~Truthy(videoInput)
  THEN [status |-> 400, kind |-> "invalid", error |-> <<"M","i","s","s","i","n","g"," ","?","u","r","l","="," ","p","a","r","a","m","e","t","e","r",".">>,
        calls |-> NoCalls, failed |-> FALSE]
  ELSE sttTry(sttVideoId(videoInput), ytdl, download, groq)

\* every response the handler can give
sttResponses ==
  { sttHandler(method, groqKey, videoInput, ytdl, download, groq) :
      method \in {"GET", "OPTIONS"}, groqKey \in BOOLEAN,
      videoInput \in HandlerInputs, ytdl \in YtdlAnswers,
      download \in DownloadAnswers, groq \in GroqAnswers }

\* one request to the speech-to-text endpoint, from arrival to response
SttRequest ==
  /\ endpoint = "stt"
  /\ \E response \in sttResponses : resp' = response
  /\ UNCHANGED <<endpoint, yt, created, poisoned, afterPoison, req, selector, candidates, chosen, given, got>>

\* ------------------------------------------- resolve (README.md lines 190-482)
\* const x = value; Body(x): the value is computed once, then bound
With(value, Body(_)) == CHOOSE result \in {Body(x) : x \in {value}} : TRUE

\* one <item> of a feed document as extractTag and extractAttr read it: its
\* title, enclosure url, itunes:image href and itunes:duration, each '' when
\* the document has none
Item(title, enclosure, artwork, duration) ==
  [title |-> title, enclosure |-> enclosure, artwork |-> artwork, duration |-> duration]

\* the items.slice(0, 50) cap
FeedCap == 50

\* the duration of an item, from its itunes:duration text
parseDuration(durationStr) ==
  IF Includes(durationStr, <<":">>)
  THEN LET texts == Split(durationStr, ":")
           parts == [i \in 1..Len(texts) |-> ToNumber(texts[i])]
       IN IF Len(parts) = 3
          THEN NumAdd(NumAdd(NumTimes(parts[1], 3600), NumTimes(parts[2], 60)), parts[3])
          ELSE IF Len(parts) = 2
          THEN NumAdd(NumTimes(parts[1], 60), parts[2])
          ELSE Num(0)
  ELSE NumOrZero(ParseInt(durationStr))

\* the entry built from one item
feedEntry(item, showTitle, showArtwork) ==
  [title |-> OrElse(item.title, <<"U","n","t","i","t","l","e","d">>),
   mp3Url |-> OrElse(item.enclosure, <<>>),
   artwork |-> OrElse(item.artwork, showArtwork),
   duration |-> parseDuration(OrElse(item.duration, <<"0">>)),
   show |-> showTitle]

\* a filter that keeps every entry
KeepsAll(entry) == TRUE

\* the test of entries.filter((e) => e.mp3Url)
HasAudio(entry) == Truthy(entry.mp3Url)

\* what the feed fetch comes to: fetch throwing, or an HTTP answer whose body
\* is a document with a show title, show artwork and items
FeedThrow(err) == [threw |-> TRUE, err |-> err]

Feed(ok, status, showTitle, showArtwork, items) ==
  [threw |-> FALSE, ok |-> ok, status |-> status, showTitle |-> showTitle,
   showArtwork |-> showArtwork, items |-> items]

FeedStatusError(status) == Err(<<"R","S","S"," ","f","e","e","d"," ","r","e","t","u","r","n","e","d"," ">> \o NatToStr(status), "upstream")

\* a cap that counts only the items with an enclosure
firstWithAudio(items) ==
  Slice(SelectSeq(items, LAMBDA item : Truthy(item.enclosure)), 1, FeedCap)

\* items.slice(0, 50)
cappedItems(items) == Slice(items, 1, FeedCap)

\* fetchRSSEpisodes(feedUrl): the entries, or the error thrown
fetchRSSEpisodes(feedUrl, feed) ==
  LET calls == <<<<"feed", feedUrl>>>> IN
  IF feed.threw THEN Thrown(feed.err, calls)
  ELSE IF ~feed.ok THEN Thrown(FeedStatusError(feed.status), calls)
  ELSE
    LET showTitle == OrElse(feed.showTitle, <<"U","n","k","n","o","w","n"," ","P","o","d","c","a","s","t">>)
        showArtwork == OrElse(feed.showArtwork, <<>>)
        capped == cappedItems(feed.items)
        entries == [i \in 1..Len(capped) |-> feedEntry(capped[i], showTitle, showArtwork)]
    IN Returned(SelectSeq(entries, HasAudio), calls)

NoEpisodesError == Err(<<"N","o"," ","e","p","i","s","o","d","e","s"," ","f","o","u","n","d"," ","i","n"," ","R","S","S"," ","f","e","e","d",".">>, "noepisodes")

\* a pick that takes the last episode whatever the index
pickLast(episodes, episodeIndex) == episodes[Len(episodes)]

\* episodes[episodeIndex] || episodes[0], of a non-empty list (the code's
\* indices start at 0)
pickEpisode(episodes, episodeIndex) ==
  IF episodeIndex + 1 \in 1..Len(episodes) THEN episodes[episodeIndex + 1] ELSE episodes[1]

resolveRSSFeedAt(url, feed, episodeIndex) ==
  With(fetchRSSEpisodes(url, feed), LAMBDA fetched :
    IF fetched.threw THEN fetched
    ELSE IF Len(fetched.value) = 0 THEN Thrown(NoEpisodesError, fetched.calls)
    ELSE
      LET episode == pickEpisode(fetched.value, episodeIndex) IN
      Returned([mp3Url |-> episode.mp3Url,
                title |-> episode.title,
                show |-> OrElse(episode.show, <<"U","n","k","n","o","w","n"," ","P","o","d","c","a","s","t">>),
                artwork |-> OrElse(episode.artwork, <<>>),
                duration |-> NumOrZero(episode.duration),
                source |-> "rss"],
               fetched.calls))

\* resolveRSSFeed(url), with the default episodeIndex = 0
resolveRSSFeed(url, feed) == resolveRSSFeedAt(url, feed, 0)

AudioExtensions == {<<"m","p","3">>, <<"m","4","a">>, <<"o","g","g">>, <<"w","a","v">>, <<"a","a","c">>}

\* filename.replace(/\.(mp3|m4a|ogg|wav|aac)$/i, '')
StripAudioExtension(filename) ==
  IF Len(filename) >= 4 /\ filename[Len(filename) - 3] = "."
       /\ ToLower(Slice(filename, Len(filename) - 2, Len(filename))) \in AudioExtensions
  THEN Slice(filename, 1, Len(filename) - 4)
  ELSE filename

\* s.replace(/[-_]/g, ' ')
DashesToSpaces(s) == [i \in 1..Len(s) |-> IF s[i] \in {"-", "_"} THEN " " ELSE s[i]]

\* what the HEAD request comes to: "throws", "notok" or "ok"
HeadAnswers == {"throws", "notok", "ok"}

NotAccessibleError == Err(<<"A","u","d","i","o"," ","U","R","L"," ","i","s"," ","n","o","t"," ","a","c","c","e","s","s","i","b","l","e",".">>, "upstream")

resolveDirectAudio(url, head) ==
  LET calls == <<<<"head", url>>>> IN
  IF head # "ok" THEN Thrown(NotAccessibleError, calls)
  ELSE
    LET segments == Split(url, "/")
        last == segments[Len(segments)]
        filename == OrElse(Split(last, "?")[1], <<"E","p","i","s","o","d","e">>)
    IN Returned([mp3Url |-> url,
                 title |-> DashesToSpaces(StripAudioExtension(filename)),
                 show |-> <<"U","n","k","n","o","w","n"," ","P","o","d","c","a","s","t">>,
                 artwork |-> <<>>,
                 duration |-> Num(0),
                 source |-> "direct"],
                calls)

\* what a catalog call (iTunes lookup or search) comes to: fetch or json()
\* throwing, or the first element of results (Null fields where the element
\* has none; found FALSE when results is empty or missing).  The HTTP status
\* is not looked at by the resolvers.
CatalogThrow(err) == [threw |-> TRUE, err |-> err]

CatalogNone == [threw |-> FALSE, found |-> FALSE]

CatalogPodcast(feedUrl, collectionName, trackName, artworkUrl600, artworkUrl100) ==
  [threw |-> FALSE, found |-> TRUE, feedUrl |-> feedUrl,
   collectionName |-> collectionName, trackName |-> trackName,
   artworkUrl600 |-> artworkUrl600, artworkUrl100 |-> artworkUrl100]

CatalogEpisode(trackName, episodeUrl, trackTimeMillis, feedUrl, collectionName) ==
  [threw |-> FALSE, found |-> TRUE, trackName |-> trackName, episodeUrl |-> episodeUrl,
   trackTimeMillis |-> trackTimeMillis, feedUrl |-> feedUrl,
   collectionName |-> collectionName, artworkUrl600 |-> Null]

\* trackTimeMillis ? Math.floor(trackTimeMillis / 1000) : 0
millisToSeconds(trackTimeMillis) ==
  IF trackTimeMillis = 0 THEN Num(0) ELSE Secs(trackTimeMillis \div 1000)

NoPodcastIdError ==
  Err(<<"C","o","u","l","d"," ","n","o","t"," ","e","x","t","r","a","c","t"," ","p","o","d","c","a","s","t"," ","I","D"," ","f","r","o","m"," ","A","p","p","l","e"," ","P","o","d","c","a","s","t","s"," ","l","i","n","k",".">>, "badlink")

NoFeedError == Err(<<"C","o","u","l","d"," ","n","o","t"," ","f","i","n","d"," ","R","S","S"," ","f","e","e","d"," ","f","o","r"," ","t","h","i","s"," ","p","o","d","c","a","s","t",".">>, "nofeed")

\* one find over both directions: the index of the first entry matching
\* either way, or 0
appleFirstEitherWay(episodes, searchTitle) ==
  LET either(e) ==
        \/ Includes(ToLower(e.title), searchTitle)
        \/ Includes(searchTitle, Slice(ToLower(e.title), 1, 30))
  IN FindIndex(episodes, either)

\* episodes.find(...) || episodes.find(...) of the Apple resolver: the index
\* of the entry matching searchTitle, or 0
appleTitleMatch(episodes, searchTitle) ==
  LET contains(e) == Includes(ToLower(e.title), searchTitle)
      contained(e) == Includes(searchTitle, Slice(ToLower(e.title), 1, 30))
      first == FindIndex(episodes, contains)
  IN IF first # 0 THEN first ELSE FindIndex(episodes, contained)

\* the result built from a feed entry
appleFromFeed(episode, show, artwork, calls) ==
  Returned([mp3Url |-> episode.mp3Url,
            title |-> episode.title,
            show |-> show,
            artwork |-> OrElse(episode.artwork, artwork),
            duration |-> NumOrZero(episode.duration),
            source |-> "apple"],
           calls)

\* step 3: the episode among episodes, given the episode id of the link
appleEpisode(episodes, episodeId, epLookup, show, artwork, fedCalls) ==
  IF episodeId = Null THEN appleFromFeed(episodes[1], show, artwork, fedCalls)
  ELSE
    LET calls == fedCalls \o <<<<"episodeLookup", episodeId>>>> IN
    IF epLookup.threw THEN Thrown(epLookup.err, calls)
    ELSE
      With(IF epLookup.found /\ Truthy(epLookup.trackName)
           THEN appleTitleMatch(episodes, ToLower(epLookup.trackName))
           ELSE 0,
           LAMBDA matched :
        IF matched # 0 THEN appleFromFeed(episodes[matched], show, artwork, calls)
        ELSE IF epLookup.found /\ Truthy(epLookup.episodeUrl)
        THEN Returned([mp3Url |-> epLookup.episodeUrl,
                       title |-> OrElse(epLookup.trackName, <<"U","n","k","n","o","w","n"," ","E","p","i","s","o","d","e">>),
                       show |-> show,
                       artwork |-> OrElse(epLookup.artworkUrl600, artwork),
                       duration |-> millisToSeconds(epLookup.trackTimeMillis),
                       source |-> "apple"],
                      calls)
        ELSE appleFromFeed(episodes[1], show, artwork, calls))

resolveApplePodcasts(url, lookup, feed, epLookup) ==
  With(<<MatchDigitsAfter(url, {<<"/","i","d">>}, 1), MatchDigitsAfter(url, {<<"?","i","=">>, <<"&","i","=">>}, 1)>>,
       LAMBDA ids :
    LET podcastId == ids[1]
        episodeId == ids[2]
        lookupCall == <<<<"podcastLookup", podcastId>>>>
    IN
    IF podcastId = Null THEN Thrown(NoPodcastIdError, NoCalls)
    ELSE IF lookup.threw THEN Thrown(lookup.err, lookupCall)
    ELSE IF ~lookup.found \/ ~Truthy(lookup.feedUrl) THEN Thrown(NoFeedError, lookupCall)
    ELSE
      With(fetchRSSEpisodes(lookup.feedUrl, feed), LAMBDA fetched :
        LET show == OrElse(lookup.collectionName,
                           OrElse(lookup.trackName, <<"U","n","k","n","o","w","n"," ","P","o","d","c","a","s","t">>))
            artwork == OrElse(lookup.artworkUrl600, OrElse(lookup.artworkUrl100, <<>>))
            fedCalls == lookupCall \o fetched.calls
        IN
        IF fetched.threw THEN Thrown(fetched.err, fedCalls)
        ELSE IF Len(fetched.value) = 0 THEN Thrown(NoEpisodesError, fedCalls)
        ELSE appleEpisode(fetched.value, episodeId, epLookup, show, artwork, fedCalls)))

FetchFailed == Err(<<"f","e","t","c","h"," ","f","a","i","l","e","d">>, "upstream")

\* what the oEmbed call comes to: fetch or json() throwing, a status that is
\* not ok, or the oembed document
OembedThrow(err) == [threw |-> TRUE, err |-> err]

Oembed(ok, title, providerName, thumbnailUrl) ==
  [threw |-> FALSE, ok |-> ok, title |-> title, provider_name |-> providerName,
   thumbnail_url |-> thumbnailUrl]

OembedError == Err(<<"C","o","u","l","d"," ","n","o","t"," ","f","e","t","c","h"," ","S","p","o","t","i","f","y"," ","e","p","i","s","o","d","e"," ","i","n","f","o",".">>, "upstream")

SpotifyNotFoundError ==
  Err(<<"C","o","u","l","d"," ","n","o","t"," ","f","i","n","d"," ","t","h","i","s"," ","e","p","i","s","o","d","e","'","s"," ","a","u","d","i","o","."," ","T","r","y"," ","p","a","s","t","i","n","g"," ","t","h","e"," ","A","p","p","l","e"," ","P","o","d","c","a","s","t","s"," ","o","r"," ","R","S","S"," ","l","i","n","k"," ","i","n","s","t","e","a","d",".">>, "noaudio")

\* a match on the whole title, not on its first 30 characters
spotifyWholeTitleMatch(episodes, titleLower) ==
  LET hasTitle(e) == Includes(ToLower(e.title), titleLower)
  IN FindIndex(episodes, hasTitle)

\* episodes.find(e => e.title.toLowerCase().includes(titleLower.substring(0, 30))):
\* the index of the entry found, or 0
spotifyTitleMatch(episodes, titleLower) ==
  LET key == Slice(titleLower, 1, 30)
      hasKey(e) == Includes(ToLower(e.title), key)
  IN FindIndex(episodes, hasKey)

resolveSpotify(url, oembed, search, feed) ==
  LET oembedCall == <<<<"oembed", url>>>>
      fullTitle == IF oembed.threw THEN <<>> ELSE OrElse(oembed.title, <<>>)
      showName == IF oembed.threw THEN <<>> ELSE OrElse(oembed.provider_name, <<>>)
      thumbnail == IF oembed.threw THEN <<>> ELSE OrElse(oembed.thumbnail_url, <<>>)
      show == OrElse(search.collectionName, OrElse(showName, <<"U","n","k","n","o","w","n"," ","P","o","d","c","a","s","t">>))
      searchCalls == oembedCall \o <<<<"search", fullTitle>>>>
  IN
  IF oembed.threw THEN Thrown(oembed.err, oembedCall)
  ELSE IF ~oembed.ok THEN Thrown(OembedError, oembedCall)
  ELSE IF search.threw THEN Thrown(search.err, searchCalls)
  ELSE IF ~search.found THEN Thrown(SpotifyNotFoundError, searchCalls)
  ELSE IF Truthy(search.episodeUrl)
  THEN Returned([mp3Url |-> search.episodeUrl,
                 title |-> OrElse(search.trackName, fullTitle),
                 show |-> show,
                 artwork |-> OrElse(search.artworkUrl600, thumbnail),
                 duration |-> millisToSeconds(search.trackTimeMillis),
                 source |-> "spotify",
                 spotifyUrl |-> url],
                searchCalls)
  ELSE IF ~Truthy(search.feedUrl) THEN Thrown(SpotifyNotFoundError, searchCalls)
  ELSE
    With(fetchRSSEpisodes(search.feedUrl, feed), LAMBDA fetched :
      LET calls == searchCalls \o fetched.calls IN
      IF fetched.threw THEN Thrown(fetched.err, calls)
      ELSE IF Len(fetched.value) = 0 THEN Thrown(SpotifyNotFoundError, calls)
      ELSE
        LET episodes == fetched.value
        IN With(spotifyTitleMatch(episodes, ToLower(OrElse(search.trackName, fullTitle))),
                LAMBDA matched :
             LET episode == IF matched # 0 THEN episodes[matched] ELSE episodes[1] IN
             Returned([mp3Url |-> episode.mp3Url,
                       title |-> episode.title,
                       show |-> show,
                       artwork |-> OrElse(episode.artwork, thumbnail),
                       duration |-> NumOrZero(episode.duration),
                       source |-> "spotify",
                       spotifyUrl |-> url],
                      calls)))

\* the feed documents and fetch outcomes considered
FeedAnswers ==
  { FeedThrow(FetchFailed),
    Feed(FALSE, 404, Null, Null, <<>>),
    Feed(TRUE, 200, <<"T","h","e"," ","S","h","o","w">>, Null, <<>>),
    Feed(TRUE, 200, <<"T","h","e"," ","S","h","o","w">>, Null,
         <<Item(<<"T","r","a","i","l","e","r">>, <<>>, <<>>, <<"3","0">>)>>),
    Feed(TRUE, 200, <<"T","h","e"," ","S","h","o","w">>, <<"h","t","t","p","s",":","/","/","i","m","g",".","e","x","a","m","p","l","e","/","s","h","o","w",".","p","n","g">>,
         <<Item(<<"E","p","i","s","o","d","e"," ","T","h","r","e","e">>, <<"h","t","t","p","s",":","/","/","c","d","n",".","e","x","a","m","p","l","e","/","3",".","m","p","3">>, <<>>, <<"1",":","0","2",":","0","3">>),
           Item(<<"B","o","n","u","s">>, <<>>, <<>>, <<"1","0">>),
           Item(<<"E","p","i","s","o","d","e"," ","T","w","o",":"," ","t","h","e"," ","l","o","n","g"," ","c","o","n","v","e","r","s","a","t","i","o","n"," ","a","b","o","u","t"," ","m","o","d","e","l","s">>,
                <<"h","t","t","p","s",":","/","/","c","d","n",".","e","x","a","m","p","l","e","/","2",".","m","p","3">>, <<"h","t","t","p","s",":","/","/","i","m","g",".","e","x","a","m","p","l","e","/","2",".","p","n","g">>, <<"4","5">>)>>),
    Feed(TRUE, 200, <<>>, Null,
         <<Item(<<>>, <<"h","t","t","p","s",":","/","/","c","d","n",".","e","x","a","m","p","l","e","/","0",".","m","p","3">>, <<>>, <<"-","5">>)>>),
    Feed(TRUE, 200, <<"T","h","e"," ","S","h","o","w">>, Null,
         <<Item(<<"E","p","i","s","o","d","e"," ","N","i","n","e">>, <<"h","t","t","p","s",":","/","/","c","d","n",".","e","x","a","m","p","l","e","/","9",".","m","p","3">>, <<>>, <<"0",":","1",".","5">>)>>),
    Feed(TRUE, 200, <<"T","h","e"," ","S","h","o","w">>, Null,
         <<Item(<<"E","p","i","s","o","d","e"," ","E","i","g","h","t">>, <<"h","t","t","p","s",":","/","/","c","d","n",".","e","x","a","m","p","l","e","/","8",".","m","p","3">>, <<>>, <<"1",":","x","x">>)>>) }

FeedUrl == <<"h","t","t","p","s",":","/","/","f","e","e","d","s",".","e","x","a","m","p","l","e","/","s","h","o","w">>

PodcastLookups ==
  { CatalogThrow(FetchFailed),
    CatalogNone,
    CatalogPodcast(Null, <<"T","h","e"," ","S","h","o","w">>, Null, Null, Null),
    CatalogPodcast(FeedUrl, Null, <<"T","h","e"," ","S","h","o","w">>, Null, <<"h","t","t","p","s",":","/","/","i","m","g",".","e","x","a","m","p","l","e","/","1","0","0",".","p","n","g">>) }

DirectUrl == <<"h","t","t","p","s",":","/","/","a","p","p","l","e",".","e","x","a","m","p","l","e","/","e","p",".","m","4","a">>

EpisodeLookups ==
  { CatalogThrow(FetchFailed),
    CatalogNone,
    CatalogEpisode(<<"E","p","i","s","o","d","e"," ","T","w","o">>, Null, 0, Null, Null),
    CatalogEpisode(<<"E","p","i","s","o","d","e"," ","T","w","o">>, DirectUrl, 1834500, Null, Null),
    CatalogEpisode(<<"N","o"," ","S","u","c","h"," ","T","i","t","l","e">>, DirectUrl, 1834500, Null, Null),
    CatalogEpisode(Null, DirectUrl, 0, Null, Null) }

OembedAnswers ==
  { OembedThrow(FetchFailed),
    Oembed(FALSE, Null, Null, Null),
    Oembed(TRUE, <<"E","p","i","s","o","d","e"," ","T","w","o">>, <<"S","p","o","t","i","f","y">>, <<"h","t","t","p","s",":","/","/","i","m","g",".","e","x","a","m","p","l","e","/","s",".","p","n","g">>),
    Oembed(TRUE, Null, Null, Null) }

SearchAnswers ==
  { CatalogThrow(FetchFailed),
    CatalogNone,
    CatalogEpisode(<<"E","p","i","s","o","d","e"," ","T","w","o">>, DirectUrl, 1834500, FeedUrl, <<"T","h","e"," ","S","h","o","w">>),
    CatalogEpisode(<<"E","p","i","s","o","d","e"," ","T","w","o">>, Null, 0, FeedUrl, Null),
    CatalogEpisode(Null, Null, 0, Null, Null) }

FeedExtensions == {<<"x","m","l">>, <<"r","s","s">>}

\* the resolver the dispatch picks for input, with each result it can come to
resolveDispatch(input) ==
  IF Includes(input, <<"p","o","d","c","a","s","t","s",".","a","p","p","l","e",".","c","o","m">>)
  THEN { [resolver |-> "apple", out |-> resolveApplePodcasts(input, lookup, feed, epLookup)] :
           lookup \in PodcastLookups, feed \in FeedAnswers, epLookup \in EpisodeLookups }
  ELSE IF Includes(input, <<"o","p","e","n",".","s","p","o","t","i","f","y",".","c","o","m">>)
  THEN { [resolver |-> "spotify", out |-> resolveSpotify(input, oembed, search, feed)] :
           oembed \in OembedAnswers, search \in SearchAnswers, feed \in FeedAnswers }
  ELSE IF MatchesExtension(input, AudioExtensions)
  THEN { [resolver |-> "direct", out |-> resolveDirectAudio(input, head)] :
           head \in HeadAnswers }
  ELSE IF MatchesExtension(input, FeedExtensions) \/ Includes(input, <<"/","f","e","e","d">>)
  THEN { [resolver |-> "rss", out |-> resolveRSSFeed(input, feed)] : feed \in FeedAnswers }
  ELSE { [resolver |-> "rssAttempt", out |-> resolveRSSFeed(input, feed)] :
           feed \in FeedAnswers }

\* a failed attempt reported as the upstream failure it was
reportUpstream(input, picked) ==
  [status |-> 500, kind |-> picked.out.err.kind,
   error |-> OrElse(picked.out.err.message, <<"F","a","i","l","e","d"," ","t","o"," ","r","e","s","o","l","v","e"," ","p","o","d","c","a","s","t"," ","l","i","n","k",".">>),
   input |-> input, resolver |-> picked.resolver, cause |-> picked.out.err.kind,
   calls |-> picked.out.calls, failed |-> TRUE]

\* the inner catch of the unknown branch
unrecognized(input, picked) ==
  [status |-> 400, kind |-> "unrecognized",
   error |-> <<"U","n","r","e","c","o","g","n","i","z","e","d"," ","l","i","n","k","."," ","P","a","s","t","e"," ","a"," ","S","p","o","t","i","f","y",","," ","A","p","p","l","e"," ","P","o","d","c","a","s","t","s",","," ","o","r"," ","R","S","S"," ","p","o","d","c","a","s","t"," ","l","i","n","k",".">>,
   input |-> input, resolver |-> picked.resolver, cause |-> picked.out.err.kind,
   calls |-> picked.out.calls, failed |-> TRUE]

\* the response for what the dispatch came to
resolveRespond(input, picked) ==
  LET out == picked.out IN
  IF out.threw /\ picked.resolver = "rssAttempt"
  THEN unrecognized(input, picked)
  ELSE IF out.threw
  THEN [status |-> 500, kind |-> out.err.kind,
        error |-> OrElse(out.err.message, <<"F","a","i","l","e","d"," ","t","o"," ","r","e","s","o","l","v","e"," ","p","o","d","c","a","s","t"," ","l","i","n","k",".">>),
        input |-> input, resolver |-> picked.resolver, cause |-> out.err.kind,
        calls |-> out.calls, failed |-> TRUE]
  ELSE IF ~Truthy(out.value.mp3Url)
  THEN [status |-> 404, kind |-> "noaudio",
        error |-> <<"C","o","u","l","d"," ","n","o","t"," ","f","i","n","d"," ","a","n"," ","a","u","d","i","o"," ","f","i","l","e"," ","f","o","r"," ","t","h","i","s"," ","e","p","i","s","o","d","e",".">>,
        input |-> input, resolver |-> picked.resolver, cause |-> "noaudio",
        calls |-> out.calls, failed |-> TRUE]
  ELSE [status |-> 200, kind |-> "descriptor", result |-> out.value,
        input |-> input, resolver |-> picked.resolver,
        calls |-> out.calls, failed |-> FALSE]

\* the whole handler: the responses one request can get
resolveHandler(method, url) ==
  IF method = "OPTIONS"
  THEN {Preflight}
  ELSE IF method # "POST"
  THEN {[status |-> 405, kind |-> "method", error |-> <<"U","s","e"," ","P","O","S","T",".">>,
         calls |-> NoCalls, failed |-> FALSE]}
  ELSE IF ~Truthy(url)
  THEN {[status |-> 400, kind |-> "missing", error |-> <<"M","i","s","s","i","n","g"," ","\"","u","r","l","\""," ","i","n"," ","r","e","q","u","e","s","t"," ","b","o","d","y",".">>,
         calls |-> NoCalls, failed |-> FALSE]}
  ELSE With(Trim(url), LAMBDA input :
         {resolveRespond(input, picked) : picked \in resolveDispatch(input)})

\* the url values of the request bodies considered (Null: no url)
ResolveInputs ==
  { Null,
    <<>>,
    <<"h","t","t","p","s",":","/","/","p","o","d","c","a","s","t","s",".","a","p","p","l","e",".","c","o","m","/","u","s","/","p","o","d","c","a","s","t","/","s","h","o","w","/","i","d","1","2","3","?","i","=","4","5","6">>,
    <<"h","t","t","p","s",":","/","/","p","o","d","c","a","s","t","s",".","a","p","p","l","e",".","c","o","m","/","u","s","/","p","o","d","c","a","s","t","/","s","h","o","w","/","i","d","1","2","3">>,
    <<"h","t","t","p","s",":","/","/","p","o","d","c","a","s","t","s",".","a","p","p","l","e",".","c","o","m","/","u","s","/","p","o","d","c","a","s","t","/","s","h","o","w">>,
    <<"h","t","t","p","s",":","/","/","p","o","d","c","a","s","t","s",".","a","p","p","l","e",".","c","o","m","/","u","s","/","p","o","d","c","a","s","t","/","i","d","1","2","3","/","e","p",".","m","p","3">>,
    <<"h","t","t","p","s",":","/","/","o","p","e","n",".","s","p","o","t","i","f","y",".","c","o","m","/","e","p","i","s","o","d","e","/","4","r","O","o","J","6">>,
    <<"h","t","t","p","s",":","/","/","o","p","e","n",".","s","p","o","t","i","f","y",".","c","o","m","/","e","p","i","s","o","d","e","/","c","l","i","p",".","m","p","3">>,
    <<" ","h","t","t","p","s",":","/","/","c","d","n",".","e","x","a","m","p","l","e","/","s","h","o","w","-","e","p","_","1",".","M","P","3"," ">>,
    <<"h","t","t","p","s",":","/","/","c","d","n",".","e","x","a","m","p","l","e","/","e","p",".","m","p","3","?","r","e","f","=","p","o","d","c","a","s","t","s",".","a","p","p","l","e",".","c","o","m">>,
    <<"h","t","t","p","s",":","/","/","e","x","a","m","p","l","e",".","c","o","m","/","p","o","d","c","a","s","t",".","x","m","l">>,
    <<"h","t","t","p","s",":","/","/","e","x","a","m","p","l","e",".","c","o","m","/","f","e","e","d">>,
    <<"h","t","t","p","s",":","/","/","e","x","a","m","p","l","e",".","c","o","m","/","s","h","o","w">> }

\* every response the handler can give
resolveResponses ==
  UNION { resolveHandler(method, url) :
            method \in {"POST", "GET", "OPTIONS"}, url \in ResolveInputs }

\* one request to the resolve endpoint, from arrival to response
ResolveRequest ==
  /\ endpoint = "resolve"
  /\ \E response \in resolveResponses : resp' = response
  /\ UNCHANGED <<endpoint, yt, created, poisoned, afterPoison, req, selector, candidates, chosen, given, got>>

\* ------------------------------------------------- track selection alone
Selectors == {"captions", "player"}

\* no track chosen yet
NoTrack == Track(<<>>, "none", "none")

\* the selection of one endpoint applied to a list of caption tracks
SelectTrack ==
  /\ endpoint = "select"
  /\ chosen = NoTrack
  /\ chosen' = IF selector = "captions" THEN selectTrackCaptions(candidates)
                ELSE selectTrackPlayer(candidates)
  /\ UNCHANGED <<endpoint, yt, created, poisoned, afterPoison, req, resp, selector, candidates,
               given, got>>

\* --------------------------------------------------------- specifications
Quiet ==
  /\ yt = NoClient
  /\ created = 0
  /\ poisoned = {}
  /\ afterPoison = FALSE
  /\ req = [r \in Req |-> IdleReq]
  /\ resp = NoResp

NoSelection ==
  /\ selector = "none"
  /\ candidates = <<>>
  /\ chosen = NoTrack

\* no call under way
NotCalled == [done |-> FALSE]

NoCall ==
  /\ given = [fn |-> "none"]
  /\ got = NotCalled

InitCaptions == endpoint = "captions" /\ Quiet /\ NoSelection /\ NoCall

InitResolve == endpoint = "resolve" /\ Quiet /\ NoSelection /\ NoCall

InitSelect ==
  /\ endpoint = "select"
  /\ Quiet
  /\ selector \in Selectors
  /\ candidates \in SeqsUpTo(Tracks, MaxTracks) \ {<<>>}
  /\ chosen = NoTrack
  /\ NoCall

Init ==
  /\ endpoint \in {"captions", "player", "stt", "resolve"}
  /\ Quiet
  /\ NoSelection
  /\ NoCall

NextCaptions ==
  \E r \in Req :
    \/ CaptionsStart(r)
    \/ CaptionsCreateDone(r)
    \/ CaptionsGetInfoDone(r)
    \/ CaptionsFetchDone(r)

Next ==
  \/ NextCaptions
  \/ PlayerRequest
  \/ SttRequest
  \/ ResolveRequest

SpecCaptions == InitCaptions /\ [][NextCaptions]_vars

SpecResolve == InitResolve /\ [][ResolveRequest]_vars

SpecSelect == InitSelect /\ [][SelectTrack]_vars

Spec == Init /\ [][Next]_vars

\* ------------------------------------------------- functions called alone
\* the longest list of items enumerated in full
MaxItems == 3

\* the items the short feed documents are made of
FeedItems ==
  { Item(<<"E","p","i","s","o","d","e"," ","A">>, <<"h","t","t","p","s",":","/","/","c","d","n",".","e","x","a","m","p","l","e","/","a",".","m","p","3">>, <<>>, <<"4","5">>),
    Item(<<"E","p","i","s","o","d","e"," ","B">>, <<"h","t","t","p","s",":","/","/","c","d","n",".","e","x","a","m","p","l","e","/","b",".","m","p","3">>, <<"h","t","t","p","s",":","/","/","i","m","g",".","e","x","a","m","p","l","e","/","b",".","p","n","g">>, <<"1",":","3","0">>),
    Item(<<"T","r","a","i","l","e","r">>, <<>>, <<>>, <<"3","0">>) }

\* every list of at most n elements of S
RECURSIVE ListsUpTo(_, _)
ListsUpTo(S, n) ==
  IF n = 0 THEN {<<>>}
  ELSE LET shorter == ListsUpTo(S, n - 1)
       IN shorter \cup {Append(l, x) : l \in shorter, x \in S}

\* a document of n items, numbered in order; every gap-th item has no
\* enclosure (gap 0: every item has one)
LongFeed(n, gap) ==
  Feed(TRUE, 200, <<"T","h","e"," ","S","h","o","w">>, Null,
       [i \in 1..n |->
          Item(<<"E","p","i","s","o","d","e"," ">> \o NatToStr(i),
               IF gap > 0 /\ i % gap = 0 THEN <<>>
               ELSE <<"h","t","t","p","s",":","/","/","c","d","n",".","e","x","a","m","p","l","e","/">> \o NatToStr(i) \o <<".","m","p","3">>,
               <<>>, NatToStr(i))])

\* the feed documents (and failed fetches) the parser is called on
\* a document of n items of which only those after the first quiet ones
\* have an enclosure
LateAudioFeed(n, quiet) ==
  Feed(TRUE, 200, <<"T","h","e"," ","S","h","o","w">>, Null,
       [i \in 1..n |->
          Item(<<"E","p","i","s","o","d","e"," ">> \o NatToStr(i),
               IF i <= quiet THEN <<>> ELSE <<"h","t","t","p","s",":","/","/","c","d","n",".","e","x","a","m","p","l","e","/">> \o NatToStr(i) \o <<".","m","p","3">>,
               <<>>, NatToStr(i))])

FeedDocs ==
  FeedAnswers
    \cup {LateAudioFeed(FeedCap + 2, quiet) : quiet \in {FeedCap - 1, FeedCap}}
    \cup {Feed(TRUE, 200, <<"T","h","e"," ","S","h","o","w">>, Null, items) : items \in ListsUpTo(FeedItems, MaxItems)}
    \cup {LongFeed(n, gap) : n \in {FeedCap - 1, FeedCap, FeedCap + 1, FeedCap + 10},
                             gap \in {0, 7}}

\* what fetchRSSEpisodes comes to for each document
parsedFeed == [feed \in FeedDocs |-> fetchRSSEpisodes(FeedUrl, feed)]

\* a call of fetchRSSEpisodes on its own
CallFetchRSSEpisodes ==
  /\ endpoint = "call"
  /\ given.fn = "fetchRSSEpisodes"
  /\ ~got.done
  /\ got' = [done |-> TRUE, out |-> parsedFeed[given.arg]]
  /\ UNCHANGED <<endpoint, yt, created, poisoned, afterPoison, req, resp, selector, candidates,
                 chosen, given>>

\* the longest duration text enumerated in full
MaxChars == 3

\* the itunes:duration texts parseDuration is called on
DurationStrings ==
  ListsUpTo({"0", "1", ":", "x"}, MaxChars)
    \cup { <<"4","5">>, <<"1",":","3","0">>, <<"1",":","0","2",":","0","3">>, <<"9","0",":","0","0">>, <<"a","b","c">>, <<"1",":","x","x">>, <<"0",":","1",".","5">>,
           <<"1",":","2",":","3",":","4">>, <<"1","2","a","b","c">>, <<"-","5">>, <<"1",".","5">>, <<"1","0",":","0","0",":","0","0">> }

\* a call of the duration parsing on its own
CallParseDuration ==
  /\ endpoint = "call"
  /\ given.fn = "parseDuration"
  /\ ~got.done
  /\ got' = [done |-> TRUE, out |-> parseDuration(given.arg)]
  /\ UNCHANGED <<endpoint, yt, created, poisoned, afterPoison, req, resp, selector, candidates,
                 chosen, given>>

\* the inputs extractVideoId is called on
ExtractInputs ==
  VideoInputs
    \cup { <<" "," "," ">>, <<"a","b","c","1","2","3","4","5","6","7">>, <<"a","b","c","1","2","3","4","5","6","7","8","9">>, <<"a","b","c","_","1","2","3","-","X","Y","Z">>, <<"a","b","c"," ","1","2","3","4","5","6","7","8">>,
           <<"h","t","t","p",":","/","/","[","b","a","d">>, <<"h","t","t","p","s",":","/","/","e","x","a","m","p","l","e",".","c","o","m","/","s","h","o","w">>,
           <<"h","t","t","p","s",":","/","/","y","o","u","t","u",".","b","e","/","a","b","c","1","2","3","4","5","6","7","8","?","t","=","1","0">>, <<"h","t","t","p","s",":","/","/","y","o","u","t","u",".","b","e","/","a","b","c","1","2","3","4","5","6","7","8","/","e","x","t","r","a">>,
           <<"h","t","t","p","s",":","/","/","y","o","u","t","u",".","b","e","/">>, <<"h","t","t","p",":","/","/","y","o","u","t","u",".","b","e","/","a","b","c","_","1","2","3","-","X","Y","Z">>,
           <<"h","t","t","p","s",":","/","/","w","w","w",".","y","o","u","t","u","b","e",".","c","o","m","/","w","a","t","c","h","?","v","=","a","b","c","1","2","3","4","5","6","7","8","&","t","=","1","0">>,
           <<"h","t","t","p","s",":","/","/","m",".","y","o","u","t","u","b","e",".","c","o","m","/","w","a","t","c","h","?","l","i","s","t","=","P","L","1","&","v","=","a","b","c","1","2","3","4","5","6","7","8">>,
           <<"h","t","t","p","s",":","/","/","w","w","w",".","y","o","u","t","u","b","e",".","c","o","m","/","w","a","t","c","h">>,
           <<"w","a","t","c","h","?","v","=","a","b","c","1","2","3","4","5","6","7","8">> }

\* a call of extractVideoId on its own
CallExtractVideoId ==
  /\ endpoint = "call"
  /\ given.fn = "extractVideoId"
  /\ ~got.done
  /\ got' = [done |-> TRUE, out |-> extractVideoId(given.arg)]
  /\ UNCHANGED <<endpoint, yt, created, poisoned, afterPoison, req, resp, selector, candidates,
                 chosen, given>>

\* the player endpoint's handler called with a given input: the responses
\* it can give, over what the upstream calls come to
CallPlayerHandler ==
  /\ endpoint = "call"
  /\ given.fn = "playerHandler"
  /\ ~got.done
  /\ got' = [done |-> TRUE,
             out |-> {playerHandler("GET", given.arg, player, caption) :
                        player \in PlayerAnswers, caption \in CaptionAnswers}]
  /\ UNCHANGED <<endpoint, yt, created, poisoned, afterPoison, req, resp, selector, candidates,
                 chosen, given>>

\* resolveRSSFeed called on its own, with or without an episode index
CallResolveRSSFeed ==
  /\ endpoint = "call"
  /\ given.fn = "resolveRSSFeed"
  /\ ~got.done
  /\ got' = [done |-> TRUE,
             out |-> IF given.arg.indexGiven
                     THEN resolveRSSFeedAt(FeedUrl, given.arg.feed, given.arg.episodeIndex)
                     ELSE resolveRSSFeed(FeedUrl, given.arg.feed)]
  /\ UNCHANGED <<endpoint, yt, created, poisoned, afterPoison, req, resp, selector, candidates,
                 chosen, given>>

\* the calls of resolveRSSFeed: every document, without an index and with
\* each index up to one past the longest short feed
FeedCalls ==
  {[feed |-> feed, indexGiven |-> FALSE, episodeIndex |-> 0] : feed \in FeedDocs}
    \cup {[feed |-> feed, indexGiven |-> TRUE, episodeIndex |-> index] :
            feed \in FeedDocs, index \in 0..MaxItems}

MaxEvents == 3

\* caption events: with text, without segs, with segments that come to
\* nothing, with an empty segs array, with newlines, past one hour
CaptionEvents ==
  { Event(5000, <<<<"h","i">>>>),
    Event(0, NoSegs),
    Event(65999, <<<<" ","\n">>, Null>>),
    Event(1500, <<>>),
    Event(0, <<<<" ","a","\n">>, Null, <<"b","]"," ">>>>),
    Event(3661000, <<<<"g","o">>>>) }

\* the payloads the caption parsing is called on
ParsePayloads == CaptionPayloads \cup ListsUpTo(CaptionEvents, MaxEvents)

\* the parsing of a caption payload on its own (the loop of the captions
\* client and parseCaptionJson3 are the same statements)
CallParseCaptions ==
  /\ endpoint = "call"
  /\ given.fn = "parseCaptions"
  /\ ~got.done
  /\ got' = [done |-> TRUE, out |-> parseCaptions(given.arg)]
  /\ UNCHANGED <<endpoint, yt, created, poisoned, afterPoison, req, resp, selector, candidates,
                 chosen, given>>

\* feed items for title matching: a long title, a short title that is the
\* start of other titles, a title in capitals, an unrelated title
TitledItems ==
  { Item(<<"E","p","i","s","o","d","e"," ","1","2",":"," ","F","o","o"," ","B","a","r"," ","B","a","z"," ","a","n","d"," ","w","h","a","t"," ","c","a","m","e"," ","o","f"," ","i","t"," ","i","n"," ","t","h","e"," ","e","n","d">>,
         <<"h","t","t","p","s",":","/","/","c","d","n",".","e","x","a","m","p","l","e","/","1","2",".","m","p","3">>, <<>>, <<"4","5">>),
    Item(<<"E","p","i","s","o","d","e"," ","1">>, <<"h","t","t","p","s",":","/","/","c","d","n",".","e","x","a","m","p","l","e","/","1",".","m","p","3">>, <<>>, <<"4","5">>),
    Item(<<"O","t","h","e","r"," ","N","e","w","s">>, <<"h","t","t","p","s",":","/","/","c","d","n",".","e","x","a","m","p","l","e","/","n","e","w","s",".","m","p","3">>, <<>>, <<"4","5">>) }

TitledFeeds ==
  {Feed(TRUE, 200, <<"T","h","e"," ","S","h","o","w">>, Null, items) : items \in ListsUpTo(TitledItems, MaxItems)}

\* what the episode lookup of the catalog can come to
TitledLookups ==
  { CatalogNone,
    CatalogEpisode(<<"E","p","i","s","o","d","e"," ","1","2",":"," ","F","o","o"," ","B","a","r"," ","B","a","z">>, Null, 0, Null, Null),
    CatalogEpisode(<<"E","p","i","s","o","d","e"," ","1","2",":"," ","F","o","o"," ","B","a","r"," ","B","a","z">>, DirectUrl, 1834500, Null, Null),
    CatalogEpisode(<<"E","P","I","S","O","D","E"," ","1","2",":"," ","f","o","o"," ","b","a","r"," ","B","A","Z">>, Null, 0, Null, Null),
    CatalogEpisode(<<"E","p","i","s","o","d","e"," ","1","2",":"," ","F","o","o"," ","B","a","r"," ","B","a","z"," ","a","n","d"," ","w","h","a","t"," ","i","t"," ","m","e","a","n","s"," ","(","A","p","p","l","e"," ","e","d","i","t",")">>, Null, 0, Null, Null),
    CatalogEpisode(<<"N","o"," ","S","u","c","h"," ","T","i","t","l","e">>, Null, 0, Null, Null),
    CatalogEpisode(<<"N","o"," ","S","u","c","h"," ","T","i","t","l","e">>, DirectUrl, 1834500, Null, Null),
    CatalogEpisode(Null, DirectUrl, 0, Null, Null) }

AppleEpisodeLink == <<"h","t","t","p","s",":","/","/","p","o","d","c","a","s","t","s",".","a","p","p","l","e",".","c","o","m","/","u","s","/","p","o","d","c","a","s","t","/","s","h","o","w","/","i","d","1","2","3","?","i","=","4","5","6">>

AppleShowLink == <<"h","t","t","p","s",":","/","/","p","o","d","c","a","s","t","s",".","a","p","p","l","e",".","c","o","m","/","u","s","/","p","o","d","c","a","s","t","/","s","h","o","w","/","i","d","1","2","3">>

\* the podcast lookup that names the feed
FoundPodcast ==
  CatalogPodcast(FeedUrl, Null, <<"T","h","e"," ","S","h","o","w">>, Null, <<"h","t","t","p","s",":","/","/","i","m","g",".","e","x","a","m","p","l","e","/","1","0","0",".","p","n","g">>)

\* resolveApplePodcasts called on its own, the podcast lookup naming the feed
CallResolveApplePodcasts ==
  /\ endpoint = "call"
  /\ given.fn = "resolveApplePodcasts"
  /\ ~got.done
  /\ got' = [done |-> TRUE,
             out |-> resolveApplePodcasts(given.arg.url, FoundPodcast, given.arg.feed,
                                          given.arg.epLookup)]
  /\ UNCHANGED <<endpoint, yt, created, poisoned, afterPoison, req, resp, selector, candidates,
                 chosen, given>>

AppleCalls ==
  {[url |-> url, feed |-> feed, epLookup |-> epLookup] :
     url \in {AppleEpisodeLink, AppleShowLink}, feed \in TitledFeeds,
     epLookup \in TitledLookups}

SpotifyLink == <<"h","t","t","p","s",":","/","/","o","p","e","n",".","s","p","o","t","i","f","y",".","c","o","m","/","e","p","i","s","o","d","e","/","4","r","O","o","J","6">>

\* what the oEmbed call comes to when it succeeds
TitledOembeds ==
  { Oembed(TRUE, <<"E","p","i","s","o","d","e"," ","1">>, <<"S","p","o","t","i","f","y">>, <<"h","t","t","p","s",":","/","/","i","m","g",".","e","x","a","m","p","l","e","/","s",".","p","n","g">>),
    Oembed(TRUE, Null, Null, Null) }

\* the first result of the catalog search, or none
TitledSearches ==
  { CatalogNone,
    CatalogEpisode(<<"E","p","i","s","o","d","e"," ","1","2",":"," ","F","o","o"," ","B","a","r"," ","B","a","z">>, DirectUrl, 1834500, FeedUrl, <<"T","h","e"," ","S","h","o","w">>),
    CatalogEpisode(<<"E","P","I","S","O","D","E"," ","1","2",":"," ","f","o","o"," ","b","a","r"," ","B","A","Z">>, Null, 0, FeedUrl, Null),
    CatalogEpisode(<<"E","p","i","s","o","d","e"," ","1","2",":"," ","F","o","o"," ","B","a","r"," ","B","a","z"," ","a","n","d"," ","w","h","a","t"," ","i","t"," ","m","e","a","n","s"," ","(","A","p","p","l","e"," ","e","d","i","t",")">>, Null, 0,
                   FeedUrl, Null),
    CatalogEpisode(<<"N","o"," ","S","u","c","h"," ","T","i","t","l","e">>, Null, 0, FeedUrl, Null),
    CatalogEpisode(Null, Null, 0, FeedUrl, Null),
    CatalogEpisode(<<"E","p","i","s","o","d","e"," ","1">>, Null, 0, Null, Null) }

\* resolveSpotify called on its own
CallResolveSpotify ==
  /\ endpoint = "call"
  /\ given.fn = "resolveSpotify"
  /\ ~got.done
  /\ got' = [done |-> TRUE,
             out |-> resolveSpotify(SpotifyLink, given.arg.oembed, given.arg.search,
                                    given.arg.feed)]
  /\ UNCHANGED <<endpoint, yt, created, poisoned, afterPoison, req, resp, selector, candidates,
                 chosen, given>>

SpotifyCalls ==
  {[oembed |-> oembed, search |-> search, feed |-> feed] :
     oembed \in TitledOembeds, search \in TitledSearches, feed \in TitledFeeds}

Calls ==
  {[fn |-> "fetchRSSEpisodes", arg |-> feed] : feed \in FeedDocs}
    \cup {[fn |-> "parseDuration", arg |-> str] : str \in DurationStrings}
    \cup {[fn |-> "extractVideoId", arg |-> input] : input \in ExtractInputs}
    \cup {[fn |-> "playerHandler", arg |-> input] : input \in VideoInputs}
    \cup {[fn |-> "resolveRSSFeed", arg |-> call] : call \in FeedCalls}
    \cup {[fn |-> "parseCaptions", arg |-> events] : events \in ParsePayloads}
    \cup {[fn |-> "resolveApplePodcasts", arg |-> call] : call \in AppleCalls}
    \cup {[fn |-> "resolveSpotify", arg |-> call] : call \in SpotifyCalls}

InitCalls ==
  /\ endpoint = "call"
  /\ Quiet
  /\ NoSelection
  /\ given \in Calls
  /\ got = NotCalled

NextCalls ==
  \/ CallFetchRSSEpisodes
  \/ CallParseDuration
  \/ CallExtractVideoId
  \/ CallPlayerHandler
  \/ CallResolveRSSFeed
  \/ CallParseCaptions
  \/ CallResolveApplePodcasts
  \/ CallResolveSpotify

SpecCalls == InitCalls /\ [][NextCalls]_vars

\* ------------------------------------------------ the session slot (C1-C3)
\* a client whose Innertube.create has not resolved yet
BeingCreated(c) == \E r \in Req : req[r].pc = "create" /\ req[r].mine = c

InFlight(r) == req[r].pc # "idle"

\* the last step answered a request that failed on an authentication,
\* bot-detection or rate-limit error
PoisonFailure == resp.status = 500 /\ resp.kind \in PoisonKinds

C2_SlotSafe ==
  /\ yt = NoClient \/ (yt \in 1..created /\ ~BeingCreated(yt))
  /\ \A r \in Req :
       req[r].pc \in {"getInfo", "fetch"} =>
         /\ req[r].innertube \in 1..created
         /\ ~BeingCreated(req[r].innertube)
  /\ yt \notin poisoned

\* two overlapping requests after a client was discarded: one is creating
\* the next client while the other still runs
C2_Witness ==
  /\ poisoned # {}
  /\ \E r1, r2 \in Req :
       /\ r1 # r2
       /\ req[r1].pc = "create"
       /\ req[r2].pc \in {"getInfo", "fetch"}

\* C3: overlapping captions-client requests that find the slot empty start at
\* most one Innertube.create between them, and all use the client it produced.
C3_SingleCreation ==
  \A r1, r2 \in Req :
    (r1 # r2 /\ InFlight(r1) /\ InFlight(r2)) =>
      ~(req[r1].pc = "create" /\ req[r2].pc = "create")


\* ------------------------------------------------- responses (C4-C9)
\* the last step answered a request
Responded == resp.status # 0

CompleteTranscript(result) ==
  /\ Truthy(result.videoId)
  /\ Truthy(result.title)
  /\ ~result.duration.nan
  /\ Truthy(result.youtubeUrl)
  /\ Truthy(result.transcript)
  /\ result.wordCount >= 1

\* every field of an episode descriptor is set and its audio URL is not empty
CompleteDescriptor(result) ==
  /\ Truthy(result.mp3Url)
  /\ result.title # Null
  /\ result.show # Null
  /\ result.artwork # Null
  /\ ~result.duration.nan

\* C5: every response to a request is a 200 that carries a complete result
\* or a non-200 that carries an error message.
C5_CompleteOrError ==
  (Responded /\ resp.kind # "preflight") =>
    IF resp.status = 200
    THEN IF resp.kind = "descriptor" THEN CompleteDescriptor(resp.result)
         ELSE resp.kind = "transcript" /\ CompleteTranscript(resp.result)
    ELSE Truthy(resp.error)

\* an error response of the resolve handler to a POST request
ResolveError ==
  /\ endpoint = "resolve"
  /\ Responded
  /\ resp.kind \notin {"preflight", "method", "descriptor"}

\* C6: the resolve handler answers 400 exactly for a missing url or an input
\* of no recognized kind, 404 when no audio or no usable feed episode is
\* found, and 500 when an upstream service fails.
C6_StatusClasses ==
  ResolveError =>
    /\ resp.status \in {400, 404, 500}
    /\ resp.status = 400 <=> resp.kind \in {"missing", "unrecognized"}
    /\ (resp.kind \in {"noaudio", "noepisodes"}) => resp.status = 404
    /\ resp.kind = "upstream" => resp.status = 500

\* an error response of one of the transcript handlers
TranscriptError ==
  /\ endpoint \in {"captions", "player", "stt"}
  /\ Responded
  /\ resp.kind \notin {"preflight", "transcript"}

\* C7: a transcript handler answers 400 for an invalid video id, 404 for no
\* captions or a private or age-restricted video, 401 for a missing or invalid
\* upstream credential, 429 for upstream rate limiting, and 500 for every
\* other failure, a size-limit violation included.
C7_StatusClasses ==
  TranscriptError =>
    /\ resp.kind = "invalid" => resp.status = 400
    /\ resp.kind \in {"nocaptions", "private", "age"} => resp.status = 404
    /\ resp.kind \in {"credential", "auth"} => resp.status = 401
    /\ resp.kind = "rate" => resp.status = 429
    /\ resp.kind \in {"other", "size"} => resp.status = 500

\* the host of input read as a URL (empty when it is none)
HostOf(input) ==
  LET url == ParseUrl(input) IN IF url.ok THEN url.hostname ELSE <<>>

\* the resolver the stated precedence gives input
ResolverByPrecedence(input) ==
  IF HostOf(input) = <<"p","o","d","c","a","s","t","s",".","a","p","p","l","e",".","c","o","m">> THEN "apple"
  ELSE IF HostOf(input) = <<"o","p","e","n",".","s","p","o","t","i","f","y",".","c","o","m">> THEN "spotify"
  ELSE IF MatchesExtension(input, AudioExtensions) THEN "direct"
  ELSE IF MatchesExtension(input, FeedExtensions) \/ Includes(input, <<"/","f","e","e","d">>) THEN "rss"
  ELSE "rssAttempt"

\* C8: the resolve handler hands every input to one resolver, chosen by Apple
\* host, then Spotify host, then audio extension, then .xml/.rss//feed, then
\* the RSS attempt for unknown input.
C8_DispatchPrecedence ==
  (endpoint = "resolve" /\ Responded
     /\ resp.kind \notin {"preflight", "method", "missing"}) =>
    resp.resolver = ResolverByPrecedence(resp.input)

\* C9: every 200 response of the resolve handler has a non-empty audio URL
\* and a duration that is an integer greater than or equal to 0.
C9_ValidDescriptor ==
  resp.kind = "descriptor" =>
    /\ resp.status = 200
    /\ Truthy(resp.result.mp3Url)
    /\ ~resp.result.duration.nan
    /\ resp.result.duration.milli % 1000 = 0
    /\ resp.result.duration.milli >= 0

\* ------------------------------------------------- track selection (C10)
\* a manually authored English track
ManualEnglish(t) == t.languageCode = <<"e","n">> /\ t.kind # "asr"

\* a track whose language code starts with "en"
EnglishPrefixed(t) == Slice(t.languageCode, 1, 2) = <<"e","n">>

\* track is what the stated policy allows for tracks
PolicyAllows(tracks, track) ==
  /\ \E i \in 1..Len(tracks) : track = tracks[i]
  /\ IF \E i \in 1..Len(tracks) : ManualEnglish(tracks[i])
     THEN ManualEnglish(track)
     ELSE IF \E i \in 1..Len(tracks) : EnglishPrefixed(tracks[i])
     THEN \E i \in 1..Len(tracks) :
            /\ track = tracks[i]
            /\ EnglishPrefixed(tracks[i])
            /\ \A j \in 1..(i - 1) : ~EnglishPrefixed(tracks[j])
     ELSE track = tracks[1]

C11_SizeCheckBeforeUpload ==
  endpoint = "stt" =>
    /\ resp.kind = "size" =>
         (resp.status # 200 /\ resp.calls = <<"getInfo", "download">>)
    /\ \A videoInput \in HandlerInputs, ytdl \in YtdlAnswers,
          download \in DownloadAnswers, groq \in GroqAnswers :
         ( /\ Truthy(videoInput)
           /\ ~ytdl.threw
           /\ ytdl.format = "found"
           /\ ~download.threw
           /\ download.bytes > MaxAudioBytes
           /\ resp = sttHandler("GET", TRUE, videoInput, ytdl, download, groq) )
         => ( /\ resp.kind = "size"
              /\ resp.status # 200
              /\ Count(resp.calls, "transcribe") = 0 )

\* a request whose download was one byte over the limit was answered
C11_Witness ==
  /\ endpoint = "stt"
  /\ resp.kind = "size"
  /\ resp.error = TooLarge(MaxAudioBytes + 1)
  /\ resp.calls = <<"getInfo", "download">>

\* the stated timestamp of an offset in whole seconds: M:SS under one hour,
\* H:MM:SS from one hour on
StatedTimestamp(sec) ==
  IF sec < 3600
  THEN NatToStr(sec \div 60) \o <<":">> \o PadStart2(NatToStr(sec % 60))
  ELSE NatToStr(sec \div 3600) \o <<":">> \o PadStart2(NatToStr((sec % 3600) \div 60))
         \o <<":">> \o PadStart2(NatToStr(sec % 60))

\* an event that gives a transcript line
Spoken(event) == event.segs # NoSegs /\ eventText(event) # <<>>

\* the transcript of a caption payload with every line stamped as stated
StatedCaptionTranscript(events) ==
  LET kept == SelectSeq(events, Spoken)
  IN JoinLines([i \in 1..Len(kept) |->
       <<"[">> \o StatedTimestamp(kept[i].tStartMs \div 1000) \o <<"]"," ">>
         \o eventText(kept[i])])

\* the transcript of Whisper segments with every line stamped as stated
StatedSegmentTranscript(segments) ==
  JoinLines([i \in 1..Len(segments) |->
    <<"[">> \o StatedTimestamp(segments[i].start \div 1000) \o <<"]"," ">>
      \o Trim(segments[i].text)])

\* C12: every line of a transcript in a 200 response, whether built from
\* caption events or from speech-to-text segments, carries the timestamp
\* M:SS for an offset under one hour and H:MM:SS otherwise.
C12_UniformTimestamps ==
  resp.kind = "transcript" =>
    IF endpoint = "stt"
    THEN \A groq \in GroqAnswers :
           ( /\ ~groq.threw
             /\ groq.ok
             /\ groq.jsonOk
             /\ Len(groq.segments) > 0
             /\ resp.result.transcript = sttTranscript(groq) )
           => resp.result.transcript = StatedSegmentTranscript(groq.segments)
    ELSE \A events \in CaptionPayloads :
           resp.result.transcript = transcriptOf[events]
             => resp.result.transcript = StatedCaptionTranscript(events)

\* ------------------------------------------------- feed parsing (C13, C14)
\* urls[from..] holds the elements of wanted[at..] in their order
RECURSIVE InOrder(_, _, _, _)
InOrder(wanted, at, urls, from) ==
  IF at > Len(wanted) THEN TRUE
  ELSE IF from > Len(urls) THEN FALSE
  ELSE IF urls[from] = wanted[at] THEN InOrder(wanted, at + 1, urls, from + 1)
  ELSE InOrder(wanted, at, urls, from + 1)

\* fetchRSSEpisodes was called on a document it could fetch, and returned
FeedParsed ==
  /\ endpoint = "call"
  /\ given.fn = "fetchRSSEpisodes"
  /\ got.done
  /\ ~got.out.threw

\* C13: for every feed document the parser returns at most 50 entries, each
\* with a non-empty enclosure URL, in the order of their items in the document.
C13_FeedEntries ==
  FeedParsed =>
    LET entries == got.out.value
        items == given.arg.items
    IN /\ Len(entries) <= 50
       /\ \A k \in 1..Len(entries) : entries[k].mp3Url # <<>>
       /\ InOrder([k \in 1..Len(entries) |-> entries[k].mp3Url], 1,
                  [i \in 1..Len(items) |-> items[i].enclosure], 1)

\* a document of more than 50 items, all with an enclosure, was parsed to
\* its first 50
C13_Witness ==
  /\ FeedParsed
  /\ Len(given.arg.items) > 50
  /\ Len(got.out.value) = 50
  /\ got.out.value[50].mp3Url = given.arg.items[50].enclosure

\* a plain integer: decimal digits after an optional sign
PlainInteger(str) ==
  LET digits == IF str # <<>> /\ str[1] \in {"-", "+"} THEN Tail(str) ELSE str
  IN digits # <<>> /\ AllDigits(digits)

\* the value of a plain integer
IntegerOf(str) ==
  IF str[1] = "-" THEN 0 - DigitsToNat(Tail(str))
  ELSE IF str[1] = "+" THEN DigitsToNat(Tail(str))
  ELSE DigitsToNat(str)

\* the stated duration of a text, in seconds
StatedDuration(str) ==
  LET parts == Split(str, ":")
  IN IF PlainInteger(str) THEN IntegerOf(str)
     ELSE IF Len(parts) = 2 /\ \A i \in 1..2 : PlainInteger(parts[i])
     THEN IntegerOf(parts[1]) * 60 + IntegerOf(parts[2])
     ELSE IF Len(parts) = 3 /\ \A i \in 1..3 : PlainInteger(parts[i])
     THEN IntegerOf(parts[1]) * 3600 + IntegerOf(parts[2]) * 60 + IntegerOf(parts[3])
     ELSE 0

\* C14: for every duration text the parsing of a feed item's duration yields
\* a whole number of seconds: n for a plain integer n, m*60+s for "m:s",
\* h*3600+m*60+s for "h:m:s", and 0 for every other text.
C14_DurationParsed ==
  (endpoint = "call" /\ given.fn = "parseDuration" /\ got.done) =>
    got.out = Secs(StatedDuration(given.arg))

\* ------------------------------------------------- preflight (C15)
\* the stateless handlers answer OPTIONS the same whatever else the request
\* and the environment hold
OptionsAlwaysPreflight ==
  /\ \A input \in HandlerInputs, player \in PlayerAnswers, caption \in CaptionAnswers :
       playerHandler("OPTIONS", input, player, caption) = Preflight
  /\ \A groqKey \in BOOLEAN, input \in HandlerInputs, ytdl \in YtdlAnswers,
        download \in DownloadAnswers, groq \in GroqAnswers :
       sttHandler("OPTIONS", groqKey, input, ytdl, download, groq) = Preflight
  /\ \A url \in ResolveInputs : resolveHandler("OPTIONS", url) = {Preflight}

\* C15: every handler answers an OPTIONS request with status 200 and the
\* header that allows any origin, before anything else: whatever the input
\* and the credential, with no outbound call, and leaving the session slot and
\* the requests in flight as they were.
C15_PreflightFirst ==
  [][resp'.kind = "preflight" =>
       /\ resp'.status = 200
       /\ resp'.allowOrigin = "*"
       /\ resp'.calls = NoCalls
       /\ yt' = yt
       /\ created' = created
       /\ req' = req
       /\ OptionsAlwaysPreflight]_vars

\* the captions client answered an OPTIONS request while another request
\* was creating the session
C15_Witness ==
  /\ endpoint = "captions"
  /\ resp = Preflight
  /\ \E r \in Req : req[r].pc = "create"

\* ------------------------------------------------- video ids (C16, C17)
\* the trimmed input is no 11-character token, names neither YouTube host
\* and holds no v= parameter
NamesNoVideo(input) ==
  LET trimmed == Trim(input)
  IN /\ ~(Len(trimmed) = 11 /\ \A i \in 1..11 : trimmed[i] \in IdChars)
     /\ ~Includes(trimmed, <<"y","o","u","t","u",".","b","e">>)
     /\ ~Includes(trimmed, <<"y","o","u","t","u","b","e",".","c","o","m">>)
     /\ ~Includes(trimmed, <<"v","=">>)

\* the text of s after prefix, up to the next '/', '?' or '#'
SegmentAfter(s, prefix) ==
  LET rest == Slice(s, Len(prefix) + 1, Len(s))
  IN Slice(rest, 1, EndAt(rest, {"/", "?", "#"}, 1) - 1)

\* C16: video-id extraction returns, for every input string, the trimmed
\* input when that is an 11-character token of letters, digits, '-' and '_',
\* the path segment after the host for a youtu.be URL, and null for an input
\* that names no video; for such an input the handler answers 400 with no
\* outbound call.
C16_ExtractVideoId ==
  (endpoint = "call" /\ got.done) =>
    LET trimmed == Trim(given.arg) IN
    /\ given.fn = "extractVideoId" =>
         /\ (Len(trimmed) = 11 /\ \A i \in 1..11 : trimmed[i] \in IdChars)
              => got.out = trimmed
         /\ \A prefix \in {<<"h","t","t","p","s",":","/","/","y","o","u","t","u",".","b","e","/">>, <<"h","t","t","p",":","/","/","y","o","u","t","u",".","b","e","/">>} :
              StartsWith(trimmed, prefix) => got.out = SegmentAfter(trimmed, prefix)
         /\ NamesNoVideo(given.arg) => got.out = Null
    /\ (given.fn = "playerHandler" /\ NamesNoVideo(given.arg)) =>
         \A response \in got.out :
           /\ response.status = 400
           /\ response.kind = "invalid"
           /\ response.calls = NoCalls

\* extraction gave null for an input that names no video, or gave the
\* path segment of a youtu.be URL
C16_Witness ==
  /\ endpoint = "call"
  /\ got.done
  /\ \/ given.fn = "extractVideoId" /\ given.arg = <<"n","o","t"," ","a"," ","v","i","d","e","o">> /\ got.out = Null
     \/ given.fn = "extractVideoId" /\ given.arg = <<"h","t","t","p","s",":","/","/","y","o","u","t","u",".","b","e","/","a","b","c","1","2","3","4","5","6","7","8">>
          /\ got.out = <<"a","b","c","1","2","3","4","5","6","7","8">>

\* the four URL forms of the video abc12345678
UrlForms ==
  { <<"h","t","t","p","s",":","/","/","w","w","w",".","y","o","u","t","u","b","e",".","c","o","m","/","w","a","t","c","h","?","v","=","a","b","c","1","2","3","4","5","6","7","8">>,
    <<"h","t","t","p","s",":","/","/","y","o","u","t","u",".","b","e","/","a","b","c","1","2","3","4","5","6","7","8">>,
    <<"h","t","t","p","s",":","/","/","w","w","w",".","y","o","u","t","u","b","e",".","c","o","m","/","e","m","b","e","d","/","a","b","c","1","2","3","4","5","6","7","8">>,
    <<"h","t","t","p","s",":","/","/","w","w","w",".","y","o","u","t","u","b","e",".","c","o","m","/","s","h","o","r","t","s","/","a","b","c","1","2","3","4","5","6","7","8">> }

\* C17: from each of the four URL forms (the v parameter of a watch URL,
\* the path segment after youtu.be/, /embed/<id>, /shorts/<id>) extraction
\* yields the video's id, and from none of them null.
C17_EveryUrlForm ==
  (endpoint = "call" /\ given.fn = "extractVideoId" /\ got.done /\ given.arg \in UrlForms)
    => got.out = <<"a","b","c","1","2","3","4","5","6","7","8">>

DescriptorOf(result, entry) ==
  /\ ~result.threw
  /\ result.value.mp3Url = entry.mp3Url
  /\ result.value.title = entry.title
  /\ result.value.source = "rss"

\* C19: RSS resolution returns the entry of the parsed feed at the given
\* index, with source rss; without an index it returns the first entry; for
\* a feed that yields no entries it fails and returns no result.
C19_EntryAtIndex ==
  (endpoint = "call" /\ given.fn = "resolveRSSFeed" /\ got.done
     /\ ~parsedFeed[given.arg.feed].threw) =>
    LET entries == parsedFeed[given.arg.feed].value IN
    /\ Len(entries) = 0 => got.out.threw
    /\ (Len(entries) > 0 /\ ~given.arg.indexGiven) => DescriptorOf(got.out, entries[1])
    /\ (given.arg.indexGiven /\ given.arg.episodeIndex < Len(entries))
         => DescriptorOf(got.out, entries[given.arg.episodeIndex + 1])

\* a feed of three entries with audio, the second unlike the first, was
\* resolved at index 1
C19_Witness ==
  /\ endpoint = "call"
  /\ given.fn = "resolveRSSFeed"
  /\ got.done
  /\ ~parsedFeed[given.arg.feed].threw
  /\ Len(parsedFeed[given.arg.feed].value) = 3
  /\ given.arg.indexGiven
  /\ given.arg.episodeIndex = 1
  /\ got.out.value.title = <<"E","p","i","s","o","d","e"," ","B">>
  /\ parsedFeed[given.arg.feed].value[1].title = <<"E","p","i","s","o","d","e"," ","A">>

\* ------------------------------------------------- one policy, two places (C20)
\* C20: the captions client and the player endpoint select the same track
\* from every non-empty list of caption tracks, also when the only English
\* tracks of the list have a regional code (en-US, en-GB).
C20_SameSelection ==
  [][/\ chosen' = selectTrackCaptions(candidates)
     /\ chosen' = selectTrackPlayer(candidates)]_vars

\* ------------------------------------------------- caption lines (C21)
\* the utf8 strings of the segments of an event one after the other, a
\* segment without utf8 counting as empty
RECURSIVE FlatText(_, _)
FlatText(segs, upTo) ==
  IF upTo = 0 THEN <<>>
  ELSE FlatText(segs, upTo - 1) \o (IF segs[upTo] = Null THEN <<>> ELSE segs[upTo])

\* the stated text of an event: from the first to the last character of the
\* flat text that is not white space, newlines within turned into spaces
StatedText(event) ==
  LET flat == FlatText(event.segs, Len(event.segs))
      inked == {i \in 1..Len(flat) : flat[i] \notin {" ", "\n", "\t", "\r"}}
  IN IF inked = {} THEN <<>>
     ELSE LET lo == CHOOSE i \in inked : \A j \in inked : i <= j
              hi == CHOOSE i \in inked : \A j \in inked : j <= i
          IN [k \in 1..(hi - lo + 1) |->
                IF flat[lo + k - 1] = "\n" THEN " " ELSE flat[lo + k - 1]]

\* the event has segments and its stated text is not empty
HasText(event) == event.segs # NoSegs /\ StatedText(event) # <<>>

\* the seconds a timestamp of colon-separated numbers stands for (-1 when
\* it is no such timestamp)
RECURSIVE StampSeconds(_, _)
StampSeconds(parts, upTo) ==
  IF upTo = 0 THEN 0
  ELSE IF parts[upTo] = <<>> \/ ~AllDigits(parts[upTo]) THEN -1
  ELSE LET before == StampSeconds(parts, upTo - 1)
       IN IF before < 0 THEN -1 ELSE before * 60 + DigitsToNat(parts[upTo])

\* line is "[timestamp] text" for the text and the whole seconds of event
LineOf(line, event) ==
  LET close == EndAt(line, {"]"}, 1)
      parts == Split(Slice(line, 2, close - 1), ":")
  IN /\ Len(line) > 0
     /\ line[1] = "["
     /\ StampSeconds(parts, Len(parts)) = event.tStartMs \div 1000
     /\ Slice(line, close, Len(line)) = <<"]"," ">> \o StatedText(event)

\* C21: caption payload parsing emits one line per event that has segments
\* and a non-empty text (segments joined, newlines turned into spaces,
\* trimmed), in the order of the events; each line is "[timestamp] text" with
\* the timestamp standing for the event's offset in whole seconds, rounded
\* down, 0 for a missing offset.
C21_OneLinePerSpokenEvent ==
  (endpoint = "call" /\ given.fn = "parseCaptions" /\ got.done) =>
    LET kept == SelectSeq(given.arg, HasText)
        lines == IF got.out = <<>> THEN <<>> ELSE Split(got.out, "\n")
    IN /\ Len(lines) = Len(kept)
       /\ \A i \in 1..Len(kept) : LineOf(lines[i], kept[i])

\* a payload of three events of which the middle one has no text was
\* parsed into two lines
C21_Witness ==
  /\ endpoint = "call"
  /\ given.fn = "parseCaptions"
  /\ got.done
  /\ Len(given.arg) = 3
  /\ HasText(given.arg[1])
  /\ ~HasText(given.arg[2])
  /\ HasText(given.arg[3])
  /\ given.arg[1] # given.arg[3]
  /\ Len(Split(got.out, "\n")) = 2

\* ------------------------------------------------- Apple resolution (C22, C23)
\* C22: in Apple resolution of a link with an episode id, when the episode
\* lookup yields a direct audio URL the result carries that URL, whatever
\* the titles of the feed entries are.
C22_DirectUrlShortCircuits ==
  (endpoint = "call" /\ given.fn = "resolveApplePodcasts" /\ got.done
     /\ given.arg.url = AppleEpisodeLink
     /\ given.arg.epLookup.found
     /\ Truthy(given.arg.epLookup.episodeUrl)
     /\ ~got.out.threw)
    => got.out.value.mp3Url = given.arg.epLookup.episodeUrl

\* s contains sub, letter case aside
ContainsNoCase(s, sub) == Includes(ToLower(s), ToLower(sub))

\* the feed title matches the catalog title in one direction or the other:
\* it contains the catalog title, or its first 30 characters are contained
\* in the catalog title
TitlesMatch(feedTitle, catalogTitle) ==
  \/ ContainsNoCase(feedTitle, catalogTitle)
  \/ ContainsNoCase(catalogTitle, Slice(feedTitle, 1, 30))

\* C23 as stated: with an episode id and a catalog title the entry selected
\* is the first entry, in feed order, that matches in either direction; with
\* no episode id, or no matching entry and no direct URL, it is the first
\* entry.  (Every item of the feeds called on has an enclosure, so the
\* entries are the items.)
C23_FirstMatchEitherDirection ==
  (endpoint = "call" /\ given.fn = "resolveApplePodcasts" /\ got.done /\ ~got.out.threw) =>
    LET episodes == given.arg.feed.items
        epLookup == given.arg.epLookup
        titled == epLookup.found /\ Truthy(epLookup.trackName)
        hits == IF titled
                THEN {i \in 1..Len(episodes) : TitlesMatch(episodes[i].title, epLookup.trackName)}
                ELSE {}
    IN /\ (given.arg.url = AppleEpisodeLink /\ hits # {}) =>
            got.out.value.mp3Url = episodes[CHOOSE i \in hits : \A j \in hits : i <= j].enclosure
       /\ (given.arg.url = AppleShowLink
             \/ (hits = {} /\ ~(epLookup.found /\ Truthy(epLookup.episodeUrl)))) =>
            got.out.value.mp3Url = episodes[1].enclosure

\* the least element of a non-empty set of indices
First(indices) == CHOOSE i \in indices : \A j \in indices : i <= j

\* C23, amended: with an episode id and a catalog title the entry selected
\* is the first entry whose title contains the catalog title, letter case
\* aside; when no entry does, the first entry whose title's first 30
\* characters are contained in the catalog title; with no episode id, or no
\* entry matching either way and no direct URL, it is the first entry.
C23_ContainingBeforeContained ==
  (endpoint = "call" /\ given.fn = "resolveApplePodcasts" /\ got.done /\ ~got.out.threw) =>
    LET episodes == given.arg.feed.items
        epLookup == given.arg.epLookup
        titled == epLookup.found /\ Truthy(epLookup.trackName)
        containing == IF titled
                      THEN {i \in 1..Len(episodes) :
                              ContainsNoCase(episodes[i].title, epLookup.trackName)}
                      ELSE {}
        contained == IF titled
                     THEN {i \in 1..Len(episodes) :
                             ContainsNoCase(epLookup.trackName, Slice(episodes[i].title, 1, 30))}
                     ELSE {}
    IN /\ (given.arg.url = AppleEpisodeLink /\ containing # {}) =>
            /\ got.out.value.mp3Url = episodes[First(containing)].enclosure
            /\ got.out.value.title = episodes[First(containing)].title
       /\ (given.arg.url = AppleEpisodeLink /\ containing = {} /\ contained # {}) =>
            /\ got.out.value.mp3Url = episodes[First(contained)].enclosure
            /\ got.out.value.title = episodes[First(contained)].title
       /\ (given.arg.url = AppleShowLink
             \/ (containing = {} /\ contained = {}
                   /\ ~(epLookup.found /\ Truthy(epLookup.episodeUrl)))) =>
            got.out.value.mp3Url = episodes[1].enclosure

\* the first entry's title is contained in the catalog title, the second
\* entry's long title starts with the catalog title, and the second was
\* selected
C23_Witness ==
  /\ endpoint = "call"
  /\ given.fn = "resolveApplePodcasts"
  /\ got.done
  /\ given.arg.url = AppleEpisodeLink
  /\ given.arg.epLookup = CatalogEpisode(<<"E","p","i","s","o","d","e"," ","1","2",":"," ","F","o","o"," ","B","a","r"," ","B","a","z">>, Null, 0, Null, Null)
  /\ Len(given.arg.feed.items) = 2
  /\ given.arg.feed.items[1].title = <<"E","p","i","s","o","d","e"," ","1">>
  /\ StartsWith(given.arg.feed.items[2].title, <<"E","p","i","s","o","d","e"," ","1","2",":"," ","F","o","o"," ","B","a","r"," ","B","a","z">>)
  /\ Len(given.arg.feed.items[2].title) > 30
  /\ ~got.out.threw
  /\ got.out.value.mp3Url = given.arg.feed.items[2].enclosure

\* ------------------------------------------------- Spotify resolution (C24)
\* the calls made hold no feed fetch
NoFeedCall(calls) == \A i \in 1..Len(calls) : calls[i][1] # "feed"

\* C24: Spotify resolution fails when the search has no result; when the
\* first result carries a direct audio URL that URL is returned and no feed
\* is fetched; otherwise the feed of that result, and no other, is fetched
\* and the entry returned is the first whose title contains the first 30
\* characters of the episode title, or the first entry when none does.
C24_FirstResultOnly ==
  (endpoint = "call" /\ given.fn = "resolveSpotify" /\ got.done) =>
    LET search == given.arg.search
        items == given.arg.feed.items
        episodeTitle == IF search.found /\ Truthy(search.trackName) THEN search.trackName
                        ELSE IF Truthy(given.arg.oembed.title) THEN given.arg.oembed.title
                        ELSE <<>>
        hits == {i \in 1..Len(items) : ContainsNoCase(items[i].title, Slice(episodeTitle, 1, 30))}
    IN /\ ~search.found => (got.out.threw /\ NoFeedCall(got.out.calls))
       /\ (search.found /\ Truthy(search.episodeUrl)) =>
            /\ ~got.out.threw
            /\ got.out.value.mp3Url = search.episodeUrl
            /\ NoFeedCall(got.out.calls)
       /\ (search.found /\ ~Truthy(search.episodeUrl) /\ Truthy(search.feedUrl)) =>
            /\ SelectSeq(got.out.calls, LAMBDA call : call[1] = "feed")
                 = <<<<"feed", search.feedUrl>>>>
            /\ Len(items) > 0 =>
                 /\ ~got.out.threw
                 /\ got.out.value.mp3Url
                      = items[IF hits # {} THEN First(hits) ELSE 1].enclosure

\* the search result had no direct URL, its title agreed with the second
\* entry of its feed on the first 30 characters only, and that entry was
\* returned
C24_Witness ==
  /\ endpoint = "call"
  /\ given.fn = "resolveSpotify"
  /\ got.done
  /\ given.arg.search.found
  /\ ~Truthy(given.arg.search.episodeUrl)
  /\ Len(given.arg.search.trackName) > 30
  /\ Len(given.arg.feed.items) = 2
  /\ given.arg.feed.items[1].title = <<"O","t","h","e","r"," ","N","e","w","s">>
  /\ ~ContainsNoCase(given.arg.feed.items[2].title, given.arg.search.trackName)
  /\ ~got.out.threw
  /\ got.out.value.mp3Url = given.arg.feed.items[2].enclosure

\* ------------------------------------------------- the session slot (C25, C26)
\* the step stored in the slot the client a request had been creating
StoredByCreation ==
  \E r \in Req :
    /\ req[r].pc = "create"
    /\ req'[r].pc = "getInfo"
    /\ yt' = req[r].mine

C26_ResetOwnClientOnly ==
  [][\A r \in Req :
       ( /\ InFlight(r)
         /\ req'[r].pc = "idle"
         /\ resp'.status = 500
         /\ resp'.kind \in PoisonKinds
         /\ yt # NoClient
         /\ yt' = NoClient )
       => yt = req[r].innertube]_vars

\* ------------------------------------------------- cap before filter (C27)
\* the indices, among the first 50 items, of the items with an enclosure
AudibleEarly(items) ==
  {i \in 1..Len(items) : i <= 50 /\ Truthy(items[i].enclosure)}

\* the k-th smallest element of a set of indices
Nth(indices, k) == CHOOSE i \in indices : Cardinality({j \in indices : j <= i}) = k

\* C27: the 50-entry cap applies to the items of the document before the
\* items without an enclosure are dropped: the entries are exactly the items
\* with an enclosure among the first 50, and a feed whose first 50 items have
\* none yields no entry, and the resolver fails with no episodes, even when
\* a later item has one.
C27_CapBeforeFilter ==
  (endpoint = "call" /\ got.done) =>
    /\ (given.fn = "fetchRSSEpisodes" /\ ~given.arg.threw /\ given.arg.ok) =>
         LET items == given.arg.items
             kept == AudibleEarly(items)
             entries == got.out.value
         IN /\ ~got.out.threw
            /\ Len(entries) = Cardinality(kept)
            /\ \A k \in 1..Len(entries) : entries[k].mp3Url = items[Nth(kept, k)].enclosure
    /\ (given.fn = "resolveRSSFeed" /\ ~given.arg.feed.threw /\ given.arg.feed.ok
          /\ AudibleEarly(given.arg.feed.items) = {}) =>
         /\ got.out.threw
         /\ got.out.err = NoEpisodesError

\* the resolver failed with no episodes on a feed whose 51st item has an
\* enclosure and whose first 50 have none
C27_Witness ==
  /\ endpoint = "call"
  /\ given.fn = "resolveRSSFeed"
  /\ got.done
  /\ ~given.arg.feed.threw
  /\ Len(given.arg.feed.items) > 50
  /\ Truthy(given.arg.feed.items[51].enclosure)
  /\ AudibleEarly(given.arg.feed.items) = {}
  /\ got.out.threw
  /\ got.out.err = NoEpisodesError

\* ------------------------------------------------- transcript length (C28)
\* C28: every 200 response of the captions client and of the player endpoint
\* carries a transcript of at least 50 characters and a word count above 0;
\* a payload that parses to less is answered with an error, not with a 200.
C28_NoShortTranscript ==
  (endpoint \in {"captions", "player"} /\ Responded) =>
    /\ resp.status = 200 =>
         /\ resp.kind \in {"transcript", "preflight"}
         /\ resp.kind = "transcript" =>
              /\ Len(resp.result.transcript) >= 50
              /\ resp.result.wordCount > 0
    /\ resp.kind = "transcript" => resp.status = 200

\* a 200 response of one of the two handlers with its transcript
C28_Witness ==
  /\ endpoint \in {"captions", "player"}
  /\ resp.status = 200
  /\ resp.kind = "transcript"
  /\ Len(resp.result.transcript) >= 50
  /\ resp.result.wordCount > 0
====
